---- MODULE Spec2Model ----
(***************************************************************************)
(* browserplex: named browser sessions (SessionManager), the per-domain    *)
(* lock of the StorageManager, and the ref-indexed accessibility snapshot  *)
(* engine with its ref resolution.                                         *)
(*                                                                         *)
(* Groups of variables and the specifications over them:                   *)
(*   SpecReg   the session registry under interleaved async calls          *)
(*   SpecExit  the registry with the SIGINT / SIGTERM handler              *)
(*   SpecLock  the lock file of one domain shared by several processes     *)
(*   SpecSnap  processAriaTree / getLocatorFromRef as pure functions over  *)
(*             every small accessibility tree                              *)
(*   SpecRef   the session's ref map under snapshot, navigation and        *)
(*             interaction tool calls                                      *)
(*   SpecForm  browser_fill_form and browser_click on a form               *)
(*   SpecStore the stored records and lock files of the sessions directory *)
(*   SpecLoad  the storage_load and storage_save handlers over registry    *)
(*             and sessions directory                                      *)
(*   SpecPath  the path functions of the StorageManager                    *)
(*   SpecTabs  the tabs of a session under browser_tabs calls              *)
(***************************************************************************)
EXTENDS Integers, Sequences, FiniteSets, TLC

\* ------------------------------------------------------------------ bounds
\* Number of concurrently running tool calls (async tasks) in the registry.
NumTasks == 2
\* Number of browser instances the engine can launch in one run.
MaxBrowsers == 2
\* Number of processes (each with its own pid) that share the sessions directory.
NumProcs == 2
\* Number of clock advances in one run.
MaxTicks == 2
\* Number of lines of an accessibility tree.
MaxLines == 3
\* Number of storage calls (save, delete, acquireLock) in flight at a time.
NumCallers == 2
\* Number of save calls in one run.
MaxSaves == 2
\* Number of characters of a domain or name string handed to the path functions.
MaxChars == 2
\* Number of browser_tabs calls in flight at a time.
NumTabCalls == 2
\* Number of pages the browsing context of the session opens in one run.
MaxPages == 3
\* Number of {selector, value} pairs of one browser_fill_form call.
MaxFields == 2

\* ------------------------------------------------------------------- state
\* Session registry
VARIABLES
  sessions,   \* SessionManager.sessions: a JS Map, as its entries in insertion order
  engine,     \* the browser instances launched so far, by handle: their open/closed parts
  tasks,      \* the async calls in flight: operation, arguments, position (pc), locals
  last,       \* the outcome of the call that the latest step ended, if it ended one
  liveNames   \* history: names whose create succeeded and that were not destroyed since

regVars == <<sessions, engine, tasks, last, liveNames>>

\* Lock file of one domain
VARIABLES
  now,        \* Date.now(), in milliseconds since the start of the run
  lockFile,   \* the content of the lock file (a LockInfo), or NoFile
  procs,      \* per process: the storage call it runs, its position, its locals, its return value
  owned       \* history, per process: acquiredAt of the lock its last acquireLock
              \* returned true for, until its releaseLock has ended

lockVars == <<now, lockFile, procs, owned>>

\* Snapshot engine as a function of the page
VARIABLES
  page,       \* the page: the lines of its accessibility tree (its nodes), in document order
  snapOptions, \* the SnapshotOptions of the snapshot call
  snapshot,   \* the EnhancedSnapshot the call returned
  located,    \* per ref of the snapshot: the page nodes its locator matches
  phase       \* "page", then "snapshot" once taken, then "resolved"

snapVars == <<page, snapOptions, snapshot, located, phase>>

\* Tool handlers: the refs of the sessions
VARIABLES
  pages,      \* per session: the accessibility tree of its page, as it is now
  refMaps,    \* per session: session.refMap (token e<N> is key N)
  refCounter, \* snapshot.ts: the module-level counter of nextRef()
  calls,      \* per session: its snapshot call in flight, if any: options, position (pc)
  lastCall    \* the outcome of the tool call that the latest step ended, if it ended one

refVars == <<pages, refMaps, refCounter, calls, lastCall>>

\* StorageManager: the stored records
VARIABLES
  disk,       \* SESSIONS_DIR: whether it exists, its domain directories and their files
  ops,        \* the storage calls in flight: operation, arguments, position (pc), locals
  done,       \* the outcome of the storage call that the latest step ended, if it ended one
  stored,     \* history, per record path: the state of the last save that returned,
              \* until a delete removes the record
  saves,      \* the number of save calls started
  overlapped  \* history: two storage calls were in flight at the same time

storeVars == <<disk, ops, done, stored, saves, overlapped>>

\* StorageManager: the paths of a domain and a name
VARIABLES
  request,    \* the domain and name strings of the call
  paths       \* the record path and the lock path computed for them

pathVars == <<request, paths>>

\* Tool handlers: the tabs of one session
VARIABLES
  contextPages, \* s.context.pages(): the open pages of the context, in order
  activePage,   \* s.page: the page the tools of the session act on
  pagesCreated, \* the number of pages the context has opened so far
  tabCalls,     \* the browser_tabs calls in flight: action, position (pc), locals
  lastTool      \* the outcome of the tool call that the latest step ended, if it ended one

tabVars == <<contextPages, activePage, pagesCreated, tabCalls, lastTool>>

\* Process signals
VARIABLE
  handler     \* the call frame in which the SIGINT / SIGTERM handler runs
              \* destroyAll(), NoHandler until a signal arrives

vars == <<regVars, lockVars, snapVars, refVars, storeVars, pathVars, tabVars, handler>>

\* What a step of one component leaves alone: the state of the others.
RegStep == UNCHANGED <<lockVars, snapVars, refVars, storeVars, pathVars, tabVars, handler>>
LockStep == UNCHANGED <<regVars, snapVars, refVars, storeVars, pathVars, tabVars, handler>>
SnapStep == UNCHANGED <<regVars, lockVars, refVars, storeVars, pathVars, tabVars, handler>>
RefStep == UNCHANGED <<regVars, lockVars, snapVars, storeVars, pathVars, tabVars, handler>>
StoreStep == UNCHANGED <<regVars, lockVars, snapVars, refVars, pathVars, tabVars, handler>>
PathStep == UNCHANGED <<regVars, lockVars, snapVars, refVars, storeVars, tabVars, handler>>
TabStep == UNCHANGED <<regVars, lockVars, snapVars, refVars, storeVars, pathVars, handler>>
SignalStep == UNCHANGED <<lockVars, snapVars, refVars, storeVars, pathVars, tabVars>>

\* ------------------------------------------------------- registry: values
Names == {"a", "b"}
Tasks == 1..NumTasks

\* BrowserType of the tool schema; create() has no branch for firefox.
BrowserType == {"chromium", "firefox", "webkit", "camoufox"}
SupportedTypes == {"chromium", "webkit", "camoufox"}
\* The types the calls of the model pass: the three supported branches of create()
\* do the same three awaits, so one of them stands for all; firefox is the
\* schema type that create() rejects.
TypeInputs == {"chromium", "firefox"}

NoSession == [name |-> "", type |-> "", browser |-> 0, context |-> 0, page |-> 0]
NoHandle == 0

\* ------------------------------------------------------------ JS Map model
\* A Map is a sequence of <<key, value>> entries in insertion order.
MapKeys(m) == [i \in 1..Len(m) |-> m[i][1]]
MapValues(m) == [i \in 1..Len(m) |-> m[i][2]]
MapHas(m, k) == \E i \in 1..Len(m) : m[i][1] = k
MapIndex(m, k) == CHOOSE i \in 1..Len(m) : m[i][1] = k
MapGet(m, k) == m[MapIndex(m, k)][2]
\* set(): an existing key keeps its position and gets the new value
MapSet(m, k, v) ==
  IF MapHas(m, k) THEN [m EXCEPT ![MapIndex(m, k)] = <<k, v>>]
  ELSE Append(m, <<k, v>>)
MapDelete(m, k) ==
  IF MapHas(m, k)
  THEN LET j == MapIndex(m, k)
       IN [i \in 1..(Len(m) - 1) |-> IF i < j THEN m[i] ELSE m[i + 1]]
  ELSE m

SeqToSet(s) == {s[i] : i \in 1..Len(s)}

\* ------------------------------------------------------------------ engine
\* One entry per launched browser: the browser process, its context, its page.
Launched == [browser |-> "open", context |-> "none", page |-> "none"]

\* ------------------------------------------------------------- task record
IdleTask == [op |-> "none", name |-> "", type |-> "", pc |-> "idle",
             h |-> NoHandle, session |-> NoSession, names |-> <<>>,
             caught |-> FALSE, raced |-> FALSE]

\* A new call runs in the first call frame that is not in use.
Free(t) == tasks[t].pc = "idle" /\ \A u \in Tasks : u < t => tasks[u].pc # "idle"

\* What a call that ended leaves behind: its operation, its name argument, how
\* it ended, whether a catch block ran, the session a destroy took, and (for
\* destroyAll, history) whether a create was in flight while it ran.
Outcome(task, res) ==
  [op |-> task.op, name |-> task.name, result |-> res, caught |-> task.caught,
   raced |-> task.raced, handle |-> task.session.browser]

NoOutcome == Outcome(IdleTask, "none")

\* The call of task t ends with `res`: the task is free again.
Finish(t, task, res) ==
  /\ tasks' = [tasks EXCEPT ![t] = IdleTask]
  /\ last' = Outcome(task, res)

\* The call of task t goes on (suspended at its next await) as `task`: the step
\* ends no call.
Continue(t, task) ==
  /\ tasks' = [tasks EXCEPT ![t] = task]
  /\ last' = NoOutcome

\* ---------------------------------------------------- SessionManager.create
\* History kept for destroyAll calls: a create call is in flight while they run.
NoteCreate(ts) ==
  [u \in Tasks |-> IF ts[u].op = "destroyAll"
                   THEN [ts[u] EXCEPT !.raced = TRUE] ELSE ts[u]]

CreateInFlight(ts) == \E u \in Tasks : ts[u].op = "create"

CreateCall(n, ty) == [IdleTask EXCEPT !.op = "create", !.name = n, !.type = ty]

\* A create() that skips the duplicate check.
CreateCheckNoDup(t, n, ty) ==
  /\ Free(t)
  /\ IF ty \notin SupportedTypes
     THEN Finish(t, CreateCall(n, ty), "UnknownType")
     ELSE /\ tasks' = NoteCreate([tasks EXCEPT ![t] =
                                    [CreateCall(n, ty) EXCEPT !.pc = "launch"]])
          /\ last' = NoOutcome
  /\ UNCHANGED <<sessions, engine, liveNames>>
  /\ RegStep

\* create(), up to its first await: the duplicate check and the type dispatch.
CreateCheck(t, n, ty) ==
  /\ Free(t)
  /\ IF MapHas(sessions, n)
     THEN Finish(t, CreateCall(n, ty), "DuplicateSession")
     ELSE IF ty \notin SupportedTypes
     THEN Finish(t, CreateCall(n, ty), "UnknownType")
     ELSE /\ tasks' = NoteCreate([tasks EXCEPT ![t] =
                                    [CreateCall(n, ty) EXCEPT !.pc = "launch"]])
          /\ last' = NoOutcome
  /\ UNCHANGED <<sessions, engine, liveNames>>
  /\ RegStep

\* await <engine>.launch(): a new browser instance, or the launch throws.
CreateLaunch(t) ==
  /\ tasks[t].op = "create" /\ tasks[t].pc = "launch"
  /\ \/ /\ Len(engine) < MaxBrowsers
        /\ engine' = Append(engine, Launched)
        /\ Continue(t, [tasks[t] EXCEPT !.h = Len(engine) + 1, !.pc = "newContext"])
     \/ /\ engine' = engine
        /\ Finish(t, tasks[t], "EngineError")
  /\ UNCHANGED <<sessions, liveNames>>
  /\ RegStep

\* await browser.newContext()
CreateNewContext(t) ==
  /\ tasks[t].op = "create" /\ tasks[t].pc = "newContext"
  /\ \/ /\ engine' = [engine EXCEPT ![tasks[t].h].context = "open"]
        /\ Continue(t, [tasks[t] EXCEPT !.pc = "newPage"])
     \/ /\ engine' = engine
        /\ Finish(t, tasks[t], "EngineError")
  /\ UNCHANGED <<sessions, liveNames>>
  /\ RegStep

\* A create() that hands out the handles of the first browser again.
NewSessionShared(n, ty, h) ==
  [name |-> n, type |-> ty, browser |-> 1, context |-> 1, page |-> 1]

\* The session object create() builds after its last await.
NewSession(n, ty, h) ==
  [name |-> n, type |-> ty, browser |-> h, context |-> h, page |-> h]

\* An insert that pushes a new entry without looking for the key.
CreateInsertAppend(m, n, s) == Append(m, <<n, s>>)

\* The registry insert of create(): this.sessions.set(name, session).
CreateInsert(m, n, s) == MapSet(m, n, s)

\* A create() that registers the session before it awaits context.newPage().
CreateNewPageInsertFirst(t) ==
  /\ tasks[t].op = "create" /\ tasks[t].pc = "newPage"
  /\ sessions' = CreateInsert(sessions, tasks[t].name,
                              NewSession(tasks[t].name, tasks[t].type, tasks[t].h))
  /\ \/ /\ engine' = [engine EXCEPT ![tasks[t].h].page = "open"]
        /\ Finish(t, tasks[t], "ok")
        /\ liveNames' = liveNames \cup {tasks[t].name}
     \/ /\ engine' = engine
        /\ Finish(t, tasks[t], "EngineError")
        /\ liveNames' = liveNames
  /\ RegStep

\* await context.newPage(), then (with no further await) the insert and the return.
CreateNewPage(t) ==
  /\ tasks[t].op = "create" /\ tasks[t].pc = "newPage"
  /\ \/ /\ engine' = [engine EXCEPT ![tasks[t].h].page = "open"]
        /\ sessions' = CreateInsert(sessions, tasks[t].name,
                                    NewSession(tasks[t].name, tasks[t].type, tasks[t].h))
        /\ Finish(t, tasks[t], "ok")
        /\ liveNames' = liveNames \cup {tasks[t].name}
     \/ /\ engine' = engine
        /\ Finish(t, tasks[t], "EngineError")
        /\ UNCHANGED <<sessions, liveNames>>
  /\ RegStep

\* ------------------------------------------------ SessionManager.get / list
get(n) == IF MapHas(sessions, n) THEN MapGet(sessions, n) ELSE NoSession

\* A getOrThrow() that hands back whatever the Map holds.
getOrUndefined(n) == [error |-> "none", name |-> n, session |-> get(n)]

\* getOrThrow(): the session, or the error "Session '<name>' not found. Create it
\* first with session_create." (its kind and the name it carries).
getOrThrow(n) ==
  IF ~MapHas(sessions, n)
  THEN [error |-> "SessionNotFound", name |-> n, session |-> NoSession]
  ELSE [error |-> "none", name |-> n, session |-> MapGet(sessions, n)]

\* list(): one SessionInfo per Map value, in Map order (url and createdAt left out).
list == [i \in 1..Len(sessions) |->
          [name |-> MapValues(sessions)[i].name, type |-> MapValues(sessions)[i].type]]

ListNames == [i \in 1..Len(list) |-> list[i].name]

\* --------------------------------------------------- SessionManager.destroy
\* destroy(), up to its first await: lookup, throw when absent, delete.
DestroyBegin(task, n) ==
  IF ~MapHas(sessions, n)
  THEN [task EXCEPT !.pc = "throw"]
  ELSE [task EXCEPT !.session = MapGet(sessions, n), !.pc = "closeContext"]

\* A destroy() that leaves the entry in place while it closes.
DestroyRemoveLate(m, n) == m

\* The registry as destroy() leaves it before it awaits the close.
DestroyRemove(m, n) == MapDelete(m, n)

DestroyStart(t, n) ==
  /\ Free(t)
  /\ LET call == [IdleTask EXCEPT !.op = "destroy", !.name = n]
         begun == DestroyBegin(call, n)
     IN IF begun.pc = "throw"
        THEN /\ Finish(t, call, "SessionNotFound")
             /\ UNCHANGED <<sessions, liveNames>>
        ELSE /\ Continue(t, begun)
             /\ sessions' = DestroyRemove(sessions, n)
             /\ liveNames' = liveNames \ {n}
  /\ UNCHANGED engine
  /\ RegStep

\* What follows a finished destroy(): the caller's return, or destroyAll's next name.
AfterDestroy(t, task) ==
  IF task.op = "destroyAll"
  THEN Continue(t, [task EXCEPT !.pc = "daNext", !.session = NoSession])
  ELSE Finish(t, task, "ok")

\* await session.context.close(): closes the context and its page, or throws;
\* the throw is caught by destroy's catch and skips browser.close().
CloseContext(t) ==
  /\ tasks[t].op \in {"destroy", "destroyAll"} /\ tasks[t].pc = "closeContext"
  /\ \/ /\ engine' = [engine EXCEPT ![tasks[t].session.context].context = "closed",
                                    ![tasks[t].session.context].page = "closed"]
        /\ Continue(t, [tasks[t] EXCEPT !.pc = "closeBrowser"])
     \/ /\ engine' = engine
        /\ AfterDestroy(t, [tasks[t] EXCEPT !.caught = TRUE])
  /\ UNCHANGED <<sessions, liveNames>>
  /\ RegStep

\* await session.browser.close(): closes the browser, or throws into the catch.
CloseBrowser(t) ==
  /\ tasks[t].op \in {"destroy", "destroyAll"} /\ tasks[t].pc = "closeBrowser"
  /\ \/ /\ engine' = [engine EXCEPT ![tasks[t].session.browser].browser = "closed"]
        /\ AfterDestroy(t, tasks[t])
     \/ /\ engine' = engine
        /\ AfterDestroy(t, [tasks[t] EXCEPT !.caught = TRUE])
  /\ UNCHANGED <<sessions, liveNames>>
  /\ RegStep

\* ------------------------------------------------ SessionManager.destroyAll
\* A destroyAll without the try/catch: the rejection of destroy() ends it.
DestroyAllOnErrorAbort(t, task) == Finish(t, task, "SessionNotFound")

\* What destroyAll does when this.destroy(name) rejects: the catch swallows it.
DestroyAllOnError(t, task) ==
  Continue(t, [task EXCEPT !.names = Tail(@), !.pc = "daNext", !.caught = TRUE])

\* One turn of destroyAll's loop, up to the await inside destroy().
DestroyAllIterate(t, task) ==
  IF task.names = <<>>
  THEN /\ Finish(t, task, "ok")
       /\ UNCHANGED <<sessions, liveNames>>
  ELSE LET n == Head(task.names)
           begun == DestroyBegin(task, n)
       IN IF begun.pc = "throw"
          THEN /\ DestroyAllOnError(t, task)
               /\ UNCHANGED <<sessions, liveNames>>
          ELSE /\ Continue(t, [begun EXCEPT !.names = Tail(@)])
               /\ sessions' = DestroyRemove(sessions, n)
               /\ liveNames' = liveNames \ {n}

\* destroyAll(): the snapshot of the keys, then the first turn of the loop.
DestroyAllStart(t) ==
  /\ Free(t)
  /\ DestroyAllIterate(t, [IdleTask EXCEPT !.op = "destroyAll",
                                           !.names = MapKeys(sessions),
                                           !.raced = CreateInFlight(tasks)])
  /\ UNCHANGED engine
  /\ RegStep

\* destroyAll resumed after `await this.destroy(name)` settled.
DestroyAllNext(t) ==
  /\ tasks[t].op = "destroyAll" /\ tasks[t].pc = "daNext"
  /\ DestroyAllIterate(t, tasks[t])
  /\ UNCHANGED engine
  /\ RegStep

\* ------------------------------------------------------ registry: the spec
RegInit ==
  /\ sessions = <<>>
  /\ engine = <<>>
  /\ tasks = [t \in Tasks |-> IdleTask]
  /\ last = NoOutcome
  /\ liveNames = {}

\* No call has been made and no call frame exists.
RegIdle ==
  /\ sessions = <<>>
  /\ engine = <<>>
  /\ tasks = <<>>
  /\ last = NoOutcome
  /\ liveNames = {}

\* -------------------------------------------------------- SIGINT / SIGTERM
NoHandler == 0

\* process.on("SIGINT" / "SIGTERM"): the handler calls destroyAll() and awaits it.
Signal(t) ==
  /\ handler = NoHandler
  /\ Free(t)
  /\ handler' = t
  /\ DestroyAllIterate(t, [IdleTask EXCEPT !.op = "destroyAll",
                                           !.names = MapKeys(sessions),
                                           !.raced = CreateInFlight(tasks)])
  /\ UNCHANGED engine
  /\ SignalStep

\* process.exit(0) runs as soon as the handler's destroyAll() has returned:
\* the process is gone, no call goes on and no call starts.
Exited == handler # NoHandler /\ tasks[handler].pc = "idle"

RegNext ==
  \/ \E t \in Tasks, n \in Names, ty \in TypeInputs : CreateCheck(t, n, ty)
  \/ \E t \in Tasks : CreateLaunch(t)
  \/ \E t \in Tasks : CreateNewContext(t)
  \/ \E t \in Tasks : CreateNewPage(t)
  \/ \E t \in Tasks, n \in Names : DestroyStart(t, n)
  \/ \E t \in Tasks : CloseContext(t)
  \/ \E t \in Tasks : CloseBrowser(t)
  \/ \E t \in Tasks : DestroyAllStart(t)
  \/ \E t \in Tasks : DestroyAllNext(t)


\* =============================================== StorageManager: domain lock
Procs == 1..NumProcs

LOCK_TIMEOUT_MS == 5 * 60 * 1000

\* The domain whose lock file <root>/<domain>/.lock the processes share.
LockDomain == "example.com"

NoFile == [domain |-> "", acquiredAt |-> -1, pid |-> 0]
NotOwned == -1

\* stamp: the acquiredAt of the LockInfo the call built; found: what its read of
\* the lock file found; alone (history): no step of another process's acquireLock
\* was taken since the call started.
IdleProc == [op |-> "none", pc |-> "idle", stamp |-> 0, ret |-> "none",
             found |-> "none", alone |-> TRUE]

\* The model's clock advances by one millisecond or by the lock timeout.
TickSteps == {1, LOCK_TIMEOUT_MS}
TickCount(t) == (t \div LOCK_TIMEOUT_MS) + (t % LOCK_TIMEOUT_MS)

Tick ==
  /\ \E d \in TickSteps :
       /\ TickCount(now) < MaxTicks
       /\ now' = now + d
  /\ UNCHANGED <<lockFile, procs, owned>>
  /\ LockStep

\* The staleness test of acquireLock and isLocked.
IsStale(info, t) == t - info.acquiredAt > LOCK_TIMEOUT_MS

\* An unlink that leaves the file where it is.
UnlinkKeeps(f) == f

\* fs.unlink(lockPath): removes whatever file is at the path (ENOENT when none).
Unlink(f) == NoFile

LockReturn(p, op, v) == [procs EXCEPT ![p] = [IdleProc EXCEPT !.op = op, !.ret = v]]

\* History kept for the acquireLock calls in flight: process p took a step of an
\* acquireLock call of its own.
Compete(ps, p) ==
  [q \in Procs |-> IF q # p /\ ps[q].op = "acquireLock" /\ ps[q].pc # "idle"
                   THEN [ps[q] EXCEPT !.alone = FALSE] ELSE ps[q]]

\* ---------------------------------------------------------- acquireLock
\* acquireLock: await ensureDir(dirname(lockPath))
AcquireStart(p) ==
  /\ procs[p].pc = "idle"
  /\ procs' = Compete([procs EXCEPT ![p] = [IdleProc EXCEPT !.op = "acquireLock",
                                                            !.pc = "acqRead"]], p)
  /\ UNCHANGED <<now, lockFile, owned>>
  /\ LockStep

\* acquireLock: await fs.readFile(lockPath), then the staleness check.
\*   no file (ENOENT)  -> build the LockInfo (Date.now()) and go on to the write
\*   stale             -> go on to the unlink
\*   fresh             -> return false
AcquireRead(p) ==
  /\ procs[p].op = "acquireLock" /\ procs[p].pc = "acqRead"
  /\ IF lockFile = NoFile
     THEN procs' = Compete([procs EXCEPT ![p].pc = "acqWrite", ![p].stamp = now], p)
     ELSE IF IsStale(lockFile, now)
     THEN procs' = Compete([procs EXCEPT ![p].pc = "acqUnlink", ![p].found = "stale"], p)
     ELSE procs' = Compete(LockReturn(p, "acquireLock", "false"), p)
  /\ UNCHANGED <<now, lockFile, owned>>
  /\ LockStep

\* acquireLock: await fs.unlink(lockPath) of the lock it found stale (an ENOENT
\* is taken by the catch as "no lock file"), then the LockInfo is built.
AcquireUnlink(p) ==
  /\ procs[p].op = "acquireLock" /\ procs[p].pc = "acqUnlink"
  /\ lockFile' = Unlink(lockFile)
  /\ procs' = Compete([procs EXCEPT ![p].pc = "acqWrite", ![p].stamp = now], p)
  /\ UNCHANGED <<now, owned>>
  /\ LockStep

\* acquireLock: await fs.writeFile(lockPath, lockInfo, {flag: 'wx'}):
\* creates the file and returns true, or fails with EEXIST and returns false.
AcquireWrite(p) ==
  /\ procs[p].op = "acquireLock" /\ procs[p].pc = "acqWrite"
  /\ IF lockFile = NoFile
     THEN /\ lockFile' = [domain |-> LockDomain, acquiredAt |-> procs[p].stamp, pid |-> p]
          /\ procs' = Compete(LockReturn(p, "acquireLock", "true"), p)
          /\ owned' = [owned EXCEPT ![p] = procs[p].stamp]
     ELSE /\ procs' = Compete(LockReturn(p, "acquireLock", "false"), p)
          /\ UNCHANGED <<lockFile, owned>>
  /\ now' = now
  /\ LockStep

\* ---------------------------------------------------------- releaseLock
\* releaseLock: await fs.readFile(lockPath) and the pid comparison.
ReleaseRead(p) ==
  /\ procs[p].pc = "idle"
  /\ IF lockFile # NoFile /\ lockFile.pid = p
     THEN /\ procs' = [procs EXCEPT ![p] = [IdleProc EXCEPT !.op = "releaseLock", !.pc = "relUnlink"]]
          /\ owned' = owned
     ELSE /\ procs' = LockReturn(p, "releaseLock", "void")
          /\ owned' = [owned EXCEPT ![p] = NotOwned]
  /\ UNCHANGED <<now, lockFile>>
  /\ LockStep

\* releaseLock: await fs.unlink(lockPath); an error is swallowed by the catch.
ReleaseUnlink(p) ==
  /\ procs[p].op = "releaseLock" /\ procs[p].pc = "relUnlink"
  /\ lockFile' = Unlink(lockFile)
  /\ procs' = LockReturn(p, "releaseLock", "void")
  /\ owned' = [owned EXCEPT ![p] = NotOwned]
  /\ now' = now
  /\ LockStep

\* ------------------------------------------------------------- isLocked
\* An isLocked() that only looks for the file.
isLockedExists(f, t) == f # NoFile

isLocked(f, t) == f # NoFile /\ ~IsStale(f, t)

IsLockedCall(p) ==
  /\ procs[p].pc = "idle"
  /\ procs' = LockReturn(p, "isLocked", IF isLocked(lockFile, now) THEN "true" ELSE "false")
  /\ UNCHANGED <<now, lockFile, owned>>
  /\ LockStep

\* ---------------------------------------------------------- lock: the spec
LockInit ==
  /\ now = 0
  /\ lockFile = NoFile
  /\ procs = [p \in Procs |-> IdleProc]
  /\ owned = [p \in Procs |-> NotOwned]

\* No lock file and no process.
LockIdle ==
  /\ now = 0
  /\ lockFile = <<>>
  /\ procs = <<>>
  /\ owned = <<>>

LockNext ==
  \/ Tick
  \/ \E p \in Procs : AcquireStart(p)
  \/ \E p \in Procs : AcquireRead(p)
  \/ \E p \in Procs : AcquireUnlink(p)
  \/ \E p \in Procs : AcquireWrite(p)
  \/ \E p \in Procs : ReleaseRead(p)
  \/ \E p \in Procs : ReleaseUnlink(p)
  \/ \E p \in Procs : IsLockedCall(p)

\* ================================================ snapshot engine: values
INTERACTIVE_ROLES ==
  {"button", "link", "textbox", "checkbox", "radio", "combobox", "listbox",
   "menuitem", "menuitemcheckbox", "menuitemradio", "option", "searchbox",
   "slider", "spinbutton", "switch", "tab", "treeitem"}

CONTENT_ROLES ==
  {"heading", "cell", "gridcell", "columnheader", "rowheader", "listitem",
   "article", "region", "main", "navigation"}

STRUCTURAL_ROLES ==
  {"generic", "group", "list", "table", "row", "rowgroup", "grid", "treegrid",
   "menu", "menubar", "toolbar", "tablist", "tree", "directory", "document",
   "application", "presentation", "none"}

\* `undefined` for an optional string, number or selector.
NoName == "<undefined>"
NoNth == -1
NoDepth == -1
NoSelector == 0

\* One line of the accessibility tree text, "<indent>- <role> "<name>"<suffix>":
\* the number of leading spaces, whether the line matches the engine's line
\* pattern, and the parts the pattern captures.  A line that does not match is a
\* property line such as "- /url: https://example.com".
Line(indent, parsed, role, name, suffix) ==
  [indent |-> indent, parsed |-> parsed, role |-> role, name |-> name, suffix |-> suffix]

\* The line shapes of the pages of the model: an interactive, a content and a
\* structural role, each without and with a name or text, and a property line.
LineShapes ==
  { Line(0, TRUE, "button", NoName, ""),
    Line(0, TRUE, "button", "Submit", ""),
    Line(0, TRUE, "heading", NoName, ""),
    Line(0, TRUE, "heading", "Submit", ""),
    Line(0, TRUE, "group", NoName, ":"),
    Line(0, TRUE, "group", NoName, ": text"),
    Line(0, FALSE, "", NoName, ": https://example.com") }

\* ariaSnapshot indents a child by two spaces.
LineInputs == {[s EXCEPT !.indent = 2 * d] : s \in LineShapes, d \in 0..(MaxLines - 1)}

\* A page: its nodes in document order.  The first line is a node at the root;
\* a line is at most one level deeper than the line before it; a property line
\* belongs to the node before it and has no children.
WellFormed(p) ==
  /\ Len(p) > 0 => p[1].indent = 0 /\ p[1].parsed
  /\ \A i \in 2..Len(p) :
       /\ p[i].indent <= p[i - 1].indent + 2
       /\ ~p[i].parsed => p[i - 1].parsed /\ p[i].indent = p[i - 1].indent + 2
       /\ ~p[i - 1].parsed => p[i].indent < p[i - 1].indent

PagesOfLen(k) == {p \in [1..k -> LineInputs] : WellFormed(p)}
PageInputs == UNION {PagesOfLen(k) : k \in 0..MaxLines}

\* SnapshotOptions.  A selector is modelled by the node it matches.
DepthInputs == {NoDepth, 0, 1}
OptionInputs ==
  [interactive : BOOLEAN, compact : BOOLEAN, maxDepth : DepthInputs,
   selector : {NoSelector} \cup (1..MaxLines)]

\* -------------------------------------------------- snapshot engine: tracker
\* createRoleNameTracker().getKey: `${role}:${name ?? ''}`
getKey(role, name) == <<role, IF name = NoName THEN "" ELSE name>>

\* counts.get(key) ?? 0
getNextIndex(counts, key) == IF key \in DOMAIN counts THEN counts[key] ELSE 0

\* refsByKey.get(key) ?? [], with the ref pushed
trackRef(refsByKey, key, ref) ==
  Append(IF key \in DOMAIN refsByKey THEN refsByKey[key] ELSE <<>>, ref)

getDuplicateKeys(refsByKey) == {key \in DOMAIN refsByKey : Len(refsByKey[key]) > 1}

\* JavaScript truthiness of an optional string.
Truthy(name) == name # NoName /\ name # ""

\* ------------------------------------------------ snapshot engine: the walk
\* The state of one processAriaTree call: the output lines, the ref map (token
\* e<N> is key N), the tracker, the module-level refCounter, and (history) the
\* input line each ref was assigned to.
NewWalk(counter) ==
  [result |-> <<>>, refs |-> <<>>, counts |-> <<>>, refsByKey |-> <<>>,
   refCounter |-> counter, node |-> <<>>]

\* An output line: the input line's parts, the annotations added to it, and
\* (history) the position `at` of the input line it was made from.
OutLine(indent, line, i, ref, nth, suffix) ==
  [indent |-> indent, parsed |-> line.parsed, role |-> line.role,
   name |-> IF Truthy(line.name) THEN line.name ELSE NoName,
   ref |-> ref, nth |-> nth, suffix |-> suffix, at |-> i]

\* A line passed through unchanged.
Plain(line, i) ==
  [indent |-> line.indent, parsed |-> line.parsed, role |-> line.role,
   name |-> line.name, ref |-> 0, nth |-> NoNth, suffix |-> line.suffix, at |-> i]

\* nextRef(), getNextIndex, trackRef and refs[ref] = {role, name, nth}, then the
\* enhanced line with [ref=..] and, for nth > 0, [nth=..].
AssignRef(st, line, i, indent, suffix) ==
  LET ref == st.refCounter + 1
      key == getKey(line.role, line.name)
      nth == getNextIndex(st.counts, key)
  IN [st EXCEPT
        !.refCounter = ref,
        !.counts = (key :> (nth + 1)) @@ st.counts,
        !.refsByKey = (key :> trackRef(st.refsByKey, key, ref)) @@ st.refsByKey,
        !.refs = (ref :> [role |-> line.role, name |-> line.name, nth |-> nth]) @@ st.refs,
        !.node = (ref :> i) @@ st.node,
        !.result = Append(st.result,
                          OutLine(indent, line, i, ref, IF nth > 0 THEN nth ELSE NoNth, suffix))]

Emit(st, out) == [st EXCEPT !.result = Append(st.result, out)]

\* suffix.includes('[')
BracketSuffixes == {" [level=1]", " [checked]", " [disabled]"}

\* An interactive branch that gives a ref to every line the pattern matches.
InteractiveLineAnyRole(st, line, i) ==
  IF ~line.parsed THEN st
  ELSE AssignRef(st, line, i, 0, IF line.suffix \in BracketSuffixes THEN line.suffix ELSE "")

\* processAriaTree, interactive branch: one turn of its loop.
InteractiveLine(st, line, i) ==
  IF ~line.parsed THEN st
  ELSE IF line.role \in INTERACTIVE_ROLES
  THEN AssignRef(st, line, i, 0, IF line.suffix \in BracketSuffixes THEN line.suffix ELSE "")
  ELSE st

\* getIndentLevel: floor(leading spaces / 2)
getIndentLevel(line) == line.indent \div 2

\* A processLine that gives a ref to every content-bearing line, named or not.
processLineAnyContent(st, line, i, options) ==
  IF options.maxDepth # NoDepth /\ getIndentLevel(line) > options.maxDepth THEN st
  ELSE IF ~line.parsed THEN (IF options.interactive THEN st ELSE Emit(st, Plain(line, i)))
  ELSE IF options.interactive /\ line.role \notin INTERACTIVE_ROLES THEN st
  ELSE IF options.compact /\ line.role \in STRUCTURAL_ROLES /\ ~Truthy(line.name) THEN st
  ELSE IF line.role \in INTERACTIVE_ROLES \/ line.role \in CONTENT_ROLES
  THEN AssignRef(st, line, i, line.indent, line.suffix)
  ELSE Emit(st, Plain(line, i))

processLine(st, line, i, options) ==
  IF options.maxDepth # NoDepth /\ getIndentLevel(line) > options.maxDepth THEN st
  ELSE IF ~line.parsed THEN (IF options.interactive THEN st ELSE Emit(st, Plain(line, i)))
  ELSE IF options.interactive /\ line.role \notin INTERACTIVE_ROLES THEN st
  ELSE IF options.compact /\ line.role \in STRUCTURAL_ROLES /\ ~Truthy(line.name) THEN st
  ELSE IF line.role \in INTERACTIVE_ROLES \/ (line.role \in CONTENT_ROLES /\ Truthy(line.name))
  THEN AssignRef(st, line, i, line.indent, line.suffix)
  ELSE Emit(st, Plain(line, i))

RECURSIVE Walk(_, _, _, _)
Walk(st, lines, i, options) ==
  IF i > Len(lines) THEN st
  ELSE Walk(IF options.interactive THEN InteractiveLine(st, lines[i], i)
            ELSE processLine(st, lines[i], i, options),
            lines, i + 1, options)

\* A post-pass that leaves every nth in place.
KeepEveryNth(refs, refsByKey) == refs

\* removeNthFromNonDuplicates: delete refs[ref].nth unless the key is a duplicate.
removeNthFromNonDuplicates(refs, refsByKey) ==
  [r \in DOMAIN refs |->
     IF getKey(refs[r].role, refs[r].name) \in getDuplicateKeys(refsByKey)
     THEN refs[r] ELSE [refs[r] EXCEPT !.nth = NoNth]]

\* line.includes(':') && !line.endsWith(':') for a line without a ref
HasValue(out) == ~out.parsed \/ (out.suffix # "" /\ out.suffix # ":" /\ out.suffix \notin BracketSuffixes)

\* compactTree's forward scan from line i
HasRelevantChildren(lines, i) ==
  \E j \in (i + 1)..Len(lines) :
    /\ lines[j].ref # 0
    /\ \A k \in (i + 1)..j : getIndentLevel(lines[k]) > getIndentLevel(lines[i])

RECURSIVE Filter(_, _, _)
Filter(lines, keep, i) ==
  IF i > Len(lines) THEN <<>>
  ELSE (IF i \in keep THEN <<lines[i]>> ELSE <<>>) \o Filter(lines, keep, i + 1)

\* A compactTree that keeps a line for its value or its children only.
compactTreeNoRefTest(lines) ==
  Filter(lines,
         {i \in 1..Len(lines) : HasValue(lines[i]) \/ HasRelevantChildren(lines, i)},
         1)

compactTree(lines) ==
  Filter(lines,
         {i \in 1..Len(lines) :
            lines[i].ref # 0 \/ HasValue(lines[i]) \/ HasRelevantChildren(lines, i)},
         1)

\* The tree text: its lines, or one of the sentinel texts.
Tree(text, lines) == [text |-> text, lines |-> lines]

processAriaTree(ariaTree, options, counter) ==
  LET st == Walk(NewWalk(counter), ariaTree, 1, options)
      refs == removeNthFromNonDuplicates(st.refs, st.refsByKey)
      tree == IF options.interactive
              THEN (IF st.result = <<>> THEN Tree("(no interactive elements)", <<>>)
                    ELSE Tree("", st.result))
              ELSE IF options.compact THEN Tree("", compactTree(st.result))
              ELSE Tree("", st.result)
  IN [tree |-> tree, refs |-> refs, refCounter |-> st.refCounter, node |-> st.node]

\* locator.ariaSnapshot(): the whole page for ':root', else the subtree of the
\* node the selector matches, its root at indentation 0.
SubtreeEnd(p, i) ==
  CHOOSE j \in i..Len(p) :
    /\ \A k \in (i + 1)..j : p[k].indent > p[i].indent
    /\ j < Len(p) => p[j + 1].indent <= p[i].indent

ariaSnapshot(p, selector) ==
  IF selector = NoSelector THEN p
  ELSE [k \in 1..(SubtreeEnd(p, selector) - selector + 1) |->
          [p[selector + k - 1] EXCEPT !.indent = @ - p[selector].indent]]

\* getEnhancedSnapshot after resetRefs(): `counter` is the refCounter it finds
\* when locator.ariaSnapshot() has resolved.
getEnhancedSnapshot(p, options, counter) ==
  LET ariaTree == ariaSnapshot(p, options.selector)
      first == IF options.selector = NoSelector THEN 1 ELSE options.selector
      res == processAriaTree(ariaTree, options, counter)
  IN IF ariaTree = <<>>
     THEN [tree |-> Tree("(empty)", <<>>), refs |-> <<>>, refCounter |-> counter, node |-> <<>>]
     ELSE [res EXCEPT !.node = [r \in DOMAIN res.node |-> res.node[r] + first - 1]]

\* ------------------------------------------------ snapshot engine: locators
\* A selector string: its prefix ('@', 'ref=' or none) and the rest, which is
\* e<N> (form "e", number N) or some other text.
Selector(prefix, form, n) == [prefix |-> prefix, form |-> form, n |-> n]
NoRef == Selector("", "<null>", 0)

\* A parseRef that knows the '@' prefix only: 'ref=e<N>' fails the /^e\d+$/ test.
parseRefAtOnly(arg) ==
  IF arg.prefix = "@" THEN [arg EXCEPT !.prefix = ""]
  ELSE IF arg.prefix = "" /\ arg.form = "e" THEN arg
  ELSE NoRef

\* parseRef: slice(1) after '@', slice(4) after 'ref=', the argument itself when
\* it matches /^e\d+$/, else null.
parseRef(arg) ==
  IF arg.prefix = "@" THEN [arg EXCEPT !.prefix = ""]
  ELSE IF arg.prefix = "ref=" THEN [arg EXCEPT !.prefix = ""]
  ELSE IF arg.form = "e" THEN arg
  ELSE NoRef

isRef(selector) == parseRef(selector) # NoRef

\* Keys every object literal inherits from Object.prototype.
ObjectPrototypeKeys == {"constructor", "toString", "valueOf", "hasOwnProperty"}

Undefined == [role |-> "<undefined>", name |-> NoName, nth |-> NoNth, defined |-> FALSE]
Inherited == [role |-> "<undefined>", name |-> NoName, nth |-> NoNth, defined |-> TRUE]

\* refMap[ref]
RefLookup(refMap, ref) ==
  IF ref.form = "e" /\ ref.n \in DOMAIN refMap
  THEN [role |-> refMap[ref.n].role, name |-> refMap[ref.n].name,
        nth |-> refMap[ref.n].nth, defined |-> TRUE]
  ELSE IF ref.form \in ObjectPrototypeKeys THEN Inherited
  ELSE Undefined

NoLocator == [kind |-> "null", role |-> "", name |-> NoName, nth |-> NoNth, css |-> NoRef]
RoleLocator(role, name, nth) ==
  [kind |-> "role", role |-> role, name |-> name, nth |-> nth, css |-> NoRef]
CssLocator(selector) ==
  [kind |-> "css", role |-> "", name |-> NoName, nth |-> NoNth, css |-> selector]

\* getLocatorFromRef: getByRole(role, {name, exact: true}) when the name is
\* truthy, else getByRole(role); .nth(nth) when nth is defined.
getLocatorFromRef(refMap, selector) ==
  LET ref == parseRef(selector)
      refData == RefLookup(refMap, ref)
  IN IF ref = NoRef THEN NoLocator
     ELSE IF ~refData.defined THEN NoLocator
     ELSE RoleLocator(refData.role, IF Truthy(refData.name) THEN refData.name ELSE NoName,
                      refData.nth)

\* The page's side of a role locator: the nodes with the role, of exactly that
\* accessible name when a name is given, in document order; nth picks one.
RECURSIVE Indices(_, _, _)
Indices(n, keep, i) ==
  IF i > n THEN <<>>
  ELSE (IF i \in keep THEN <<i>> ELSE <<>>) \o Indices(n, keep, i + 1)

getByRole(p, role, name) ==
  Indices(Len(p),
          {i \in 1..Len(p) :
             /\ p[i].parsed
             /\ p[i].role = role
             /\ name # NoName => p[i].name = name},
          1)

Matches(p, locator) ==
  LET all == getByRole(p, locator.role, locator.name)
  IN IF locator.kind # "role" THEN <<>>
     ELSE IF locator.nth = NoNth THEN all
     ELSE IF locator.nth < Len(all) THEN <<all[locator.nth + 1]>>
     ELSE <<>>

\* ------------------------------------------ snapshot engine: the round trip
NoSnapshot == [tree |-> Tree("<none>", <<>>), refs |-> <<>>, refCounter |-> 0, node |-> <<>>]
DefaultOptions ==
  [interactive |-> FALSE, compact |-> FALSE, maxDepth |-> NoDepth, selector |-> NoSelector]

\* The token '@e<N>'
AtRef(n) == Selector("@", "e", n)

\* getEnhancedSnapshot(page, options): resetRefs(), then the engine on the
\* page's accessibility tree.
TakeSnapshot ==
  /\ phase = "page"
  /\ snapshot' = getEnhancedSnapshot(page, snapOptions, 0)
  /\ phase' = "snapshot"
  /\ UNCHANGED <<page, snapOptions, located>>
  /\ SnapStep

\* getLocatorFromRef for every ref of the snapshot's map, on the unchanged
\* page: the nodes each locator matches.
ResolveRefs ==
  /\ phase = "snapshot"
  /\ located' = [r \in DOMAIN snapshot.refs |->
                   Matches(page, getLocatorFromRef(snapshot.refs, AtRef(r)))]
  /\ phase' = "resolved"
  /\ UNCHANGED <<page, snapOptions, snapshot>>
  /\ SnapStep

\* No page, no snapshot.
SnapIdle ==
  /\ page = <<>>
  /\ snapOptions = <<>>
  /\ snapshot = <<>>
  /\ located = <<>>
  /\ phase = "idle"

\* Every page and every option combination of the bounded input sets; a
\* selector matches a node of the page.
SnapInit ==
  /\ page \in PageInputs
  /\ snapOptions \in OptionInputs
  /\ snapOptions.selector # NoSelector =>
       snapOptions.selector <= Len(page) /\ page[snapOptions.selector].parsed
  /\ snapshot = NoSnapshot
  /\ located = <<>>
  /\ phase = "page"

SnapNext ==
  \/ TakeSnapshot
  \/ ResolveRefs

\* ============================================ tool handlers: refs of a session
\* The pages of the sessions: one "Submit" button, or two.
SubmitButton == Line(0, TRUE, "button", "Submit", "")
RefPageInputs == {<<SubmitButton>>, <<SubmitButton, SubmitButton>>}

\* The options the snapshot calls pass.
RefOptionInputs == {DefaultOptions}

\* The selectors the interaction calls pass: the three token forms of e1 and
\* e2, '@constructor', '@foo' and a CSS selector.
SelectorInputs ==
  {Selector(pf, "e", n) : pf \in {"@", "ref=", ""}, n \in 1..2}
    \cup {Selector("@", "constructor", 0), Selector("@", "foo", 0),
          Selector("", "#submit", 0)}

\* The token forms '@e<N>', 'ref=e<N>' and bare 'e<N>'.
IsToken(selector) == selector.form = "e" /\ selector.prefix \in {"@", "ref=", ""}

\* The callers run one snapshot call per session at a time.
IdleCall == [op |-> "none", options |-> DefaultOptions, pc |-> "idle"]

\* What a tool call that ended returned: success or error(message); for a
\* snapshot the EnhancedSnapshot.refs it produced and (history) the keys of the
\* map it replaced; for an interaction the locator it acted on (NoLocator: no
\* page action) and the nodes that matched.
CallOutcome(op, s, selector, res, locator, refs, nodes) ==
  [op |-> op, session |-> s, selector |-> selector, result |-> res,
   locator |-> locator, refs |-> refs, nodes |-> nodes, replaced |-> {}, raw |-> ""]

NoCallOutcome == CallOutcome("none", "", NoRef, "none", NoLocator, <<>>, <<>>)

\* A navigation that empties the session's ref map.
PageChangeClearsRefs(s, p) ==
  /\ pages[s] # p
  /\ pages' = [pages EXCEPT ![s] = p]
  /\ refMaps' = [refMaps EXCEPT ![s] = <<>>]
  /\ lastCall' = NoCallOutcome
  /\ UNCHANGED <<refCounter, calls>>
  /\ RefStep

\* The page of a session changes: a navigation, a script, a user.
PageChange(s, p) ==
  /\ pages[s] # p
  /\ pages' = [pages EXCEPT ![s] = p]
  /\ lastCall' = NoCallOutcome
  /\ UNCHANGED <<refMaps, refCounter, calls>>
  /\ RefStep

\* browser_snapshot: getOrThrow, then await s.page.title().
SnapshotCall(s, o) ==
  /\ calls[s].pc = "idle"
  /\ calls' = [calls EXCEPT ![s] = [op |-> "snapshot", options |-> o, pc |-> "title"]]
  /\ lastCall' = NoCallOutcome
  /\ UNCHANGED <<pages, refMaps, refCounter>>
  /\ RefStep

SnapshotFails(s) ==
  /\ calls' = [calls EXCEPT ![s] = IdleCall]
  /\ lastCall' = CallOutcome("snapshot", s, NoRef, "EngineError", NoLocator, <<>>, <<>>)

\* browser_snapshot: the title resolved; getEnhancedSnapshot runs resetRefs()
\* and awaits locator.ariaSnapshot().  A rejected title() ends the call.
SnapshotTitle(s) ==
  /\ calls[s].op = "snapshot" /\ calls[s].pc = "title"
  /\ \/ /\ refCounter' = 0
        /\ calls' = [calls EXCEPT ![s].pc = "aria"]
        /\ lastCall' = NoCallOutcome
     \/ /\ SnapshotFails(s)
        /\ refCounter' = refCounter
  /\ UNCHANGED <<pages, refMaps>>
  /\ RefStep

\* A store that keeps the entries of the old map the new one does not have.
MergeRefs(old, new) == new @@ old

\* s.refMap = snapshot.refs
StoreRefs(old, new) == new

\* browser_snapshot: ariaSnapshot() resolved with the page's tree; the tree is
\* processed, the refs are stored in the session, the call returns.
SnapshotAria(s) ==
  /\ calls[s].op = "snapshot" /\ calls[s].pc = "aria"
  /\ \/ LET snap == getEnhancedSnapshot(pages[s], calls[s].options, refCounter)
        IN /\ refCounter' = snap.refCounter
           /\ refMaps' = [refMaps EXCEPT ![s] = StoreRefs(refMaps[s], snap.refs)]
           /\ calls' = [calls EXCEPT ![s] = IdleCall]
           /\ lastCall' = [CallOutcome("snapshot", s, NoRef, "ok", NoLocator, snap.refs, <<>>)
                             EXCEPT !.replaced = DOMAIN refMaps[s]]
     \/ /\ SnapshotFails(s)
        /\ UNCHANGED <<refMaps, refCounter>>
  /\ pages' = pages
  /\ RefStep

\* A getLocator that uses the selector as a raw selector when the ref is unknown.
getLocatorOrRaw(refMap, selector) ==
  IF isRef(selector) /\ getLocatorFromRef(refMap, selector) # NoLocator
  THEN [error |-> "", locator |-> getLocatorFromRef(refMap, selector)]
  ELSE [error |-> "", locator |-> CssLocator(selector)]

\* getLocator: the locator of a ref, the error "Ref '...' not found. Run
\* browser_snapshot first to get current refs.", or page.locator(selector).
getLocator(refMap, selector) ==
  IF isRef(selector)
  THEN (IF getLocatorFromRef(refMap, selector) = NoLocator
        THEN [error |-> "RefNotFound", locator |-> NoLocator]
        ELSE [error |-> "", locator |-> getLocatorFromRef(refMap, selector)])
  ELSE [error |-> "", locator |-> CssLocator(selector)]

\* The messages of the errors the engine raises in a page action, and the
\* phrases of toAIFriendlyError's tests that each of them includes.
EngineMessages ==
  {"strict mode violation: locator resolved to 2 elements",
   "strict mode violation: locator resolved to 2 elements, 1 not visible",
   "Timeout 5000ms exceeded.",
   "Timeout 5000ms exceeded. <div> intercepts pointer events",
   "Timeout 5000ms exceeded. element is not visible",
   "Timeout 5000ms exceeded. element is not visible, <div> intercepts pointer events",
   "Target page, context or browser has been closed"}

Phrases(message) ==
  CASE message = "strict mode violation: locator resolved to 2 elements" ->
         {"strict mode violation"}
    [] message = "strict mode violation: locator resolved to 2 elements, 1 not visible" ->
         {"strict mode violation", "not visible"}
    [] message = "Timeout 5000ms exceeded." -> {"Timeout"}
    [] message = "Timeout 5000ms exceeded. <div> intercepts pointer events" ->
         {"Timeout", "intercepts pointer events"}
    [] message = "Timeout 5000ms exceeded. element is not visible" ->
         {"Timeout", "not visible", "element is not visible"}
    [] message = "Timeout 5000ms exceeded. element is not visible, <div> intercepts pointer events" ->
         {"Timeout", "not visible", "element is not visible", "intercepts pointer events"}
    [] OTHER -> {}

\* message.includes(phrase)
Includes(message, phrase) == phrase \in Phrases(message)

\* toAIFriendlyError: Playwright's messages are rewritten into guidance, any
\* other message (the ref-not-found message among them) is returned as it is.
toAIFriendlyError(message) ==
  IF Includes(message, "strict mode violation") THEN "MultipleMatch"
  ELSE IF Includes(message, "intercepts pointer events") THEN "Blocked"
  ELSE IF Includes(message, "not visible") \/ Includes(message, "element is not visible")
  THEN "NotVisible"
  ELSE IF Includes(message, "Timeout") THEN "TimedOut"
  ELSE message

\* locator.click(): succeeds on exactly one matching node.
ClickResult(nodes) ==
  IF Len(nodes) = 1 THEN "ok"
  ELSE IF Len(nodes) > 1 THEN "strict mode violation: locator resolved to 2 elements"
  ELSE "Timeout 5000ms exceeded."

\* browser_click (and every tool that takes a selector and translates its
\* errors): getOrThrow, getLocator, then the page action on the locator.
Interact(s, selector) ==
  /\ LET got == getLocator(refMaps[s], selector)
     IN IF got.error # ""
        THEN lastCall' = [CallOutcome("click", s, selector, toAIFriendlyError(got.error),
                                      NoLocator, <<>>, <<>>) EXCEPT !.raw = got.error]
        ELSE IF got.locator.kind = "role"
        THEN lastCall' = [CallOutcome("click", s, selector,
                                      toAIFriendlyError(ClickResult(Matches(pages[s], got.locator))),
                                      got.locator, <<>>, Matches(pages[s], got.locator))
                            EXCEPT !.raw = ClickResult(Matches(pages[s], got.locator))]
        ELSE \E res \in {"ok"} \cup EngineMessages :
               lastCall' = [CallOutcome("click", s, selector, toAIFriendlyError(res),
                                        got.locator, <<>>, <<>>) EXCEPT !.raw = res]
  /\ UNCHANGED <<pages, refMaps, refCounter, calls>>
  /\ RefStep

\* ------------------------------------------------------- browser_fill_form
\* The page of a form: two text fields, rendered with their value after ':'.
TextField(name, text) == Line(0, TRUE, "textbox", name, text)
NoText == ""
FormPage == <<TextField("First", NoText), TextField("Last", NoText)>>

\* The value a call fills in, and its rendering in the accessibility tree.
ValueInputs == {"Ada", "Bo"}
Rendered(value) == CASE value = "Ada" -> ": Ada" [] value = "Bo" -> ": Bo"

\* The {selector, value} pairs of a call: '@e1' .. '@e3', e3 not in the map.
Field(selector, value) == [selector |-> selector, value |-> value]
FieldInputs == {Field(AtRef(n), v) : n \in 1..3, v \in ValueInputs}
FieldsOfLen(k) == [1..k -> FieldInputs]
FieldsInputs == UNION {FieldsOfLen(k) : k \in 0..MaxFields}

\* locator.fill(value): the messages it can reject with, given the nodes the
\* locator matches; it can resolve on exactly one matching node.
FillResults(nodes) ==
  IF Len(nodes) > 1 THEN {m \in EngineMessages : Includes(m, "strict mode violation")}
  ELSE IF Len(nodes) = 0 THEN {m \in EngineMessages : Includes(m, "Timeout")}
  ELSE {"ok"} \cup {m \in EngineMessages : ~Includes(m, "strict mode violation")}

\* What a browser_fill_form call returned: success, or error(message) with the
\* message of the error it caught; (history) the fields it was given, the
\* position of the field that failed and the page it started on.
FillOutcome(s, call, res, selector, failed, raw) ==
  [op |-> "fill_form", session |-> s, selector |-> selector, result |-> res, raw |-> raw,
   fields |-> call.fields, failed |-> failed, before |-> call.before]

\* browser_fill_form, catch: error((e as Error).message)
FillCatch(message) == message

\* browser_fill_form, the loop from the field at `at` up to its next await:
\* past the last field the call returns success; getLocator throws for an
\* unknown ref; else locator.fill is awaited.
FillLoop(s, call, at) ==
  IF at > Len(call.fields)
  THEN /\ calls' = [calls EXCEPT ![s] = IdleCall]
       /\ lastCall' = FillOutcome(s, call, "ok", NoRef, 0, "")
  ELSE LET got == getLocator(refMaps[s], call.fields[at].selector)
       IN IF got.error # ""
          THEN /\ calls' = [calls EXCEPT ![s] = IdleCall]
               /\ lastCall' = FillOutcome(s, call, FillCatch(got.error),
                                          call.fields[at].selector, at, got.error)
          ELSE /\ calls' = [calls EXCEPT ![s] = [call EXCEPT !.at = at, !.locator = got.locator]]
               /\ lastCall' = NoCallOutcome

\* browser_fill_form: getOrThrow, then the loop.
FillFormCall(s, fields) ==
  /\ calls[s].pc = "idle"
  /\ FillLoop(s, [op |-> "fill_form", options |-> DefaultOptions, pc |-> "fill",
                  fields |-> fields, at |-> 0, locator |-> NoLocator, before |-> pages[s]], 1)
  /\ UNCHANGED <<pages, refMaps, refCounter>>
  /\ RefStep

\* A fill that writes the value into every field of the page.
FilledEvery(p, i, value) == [k \in DOMAIN p |-> [p[k] EXCEPT !.suffix = Rendered(value)]]

\* The page after a fill of its node i.
Filled(p, i, value) == [p EXCEPT ![i].suffix = Rendered(value)]

\* browser_fill_form: the awaited locator.fill settles.  Resolved, the field
\* has its value and the loop goes on; rejected, the error is caught and the
\* call returns it.
FillSettles(s) ==
  /\ calls[s].op = "fill_form" /\ calls[s].pc = "fill"
  /\ LET call == calls[s]
         nodes == Matches(pages[s], call.locator)
     IN \E res \in FillResults(nodes) :
          IF res = "ok"
          THEN /\ pages' = [pages EXCEPT ![s] = Filled(@, nodes[1], call.fields[call.at].value)]
               /\ FillLoop(s, call, call.at + 1)
          ELSE /\ pages' = pages
               /\ calls' = [calls EXCEPT ![s] = IdleCall]
               /\ lastCall' = FillOutcome(s, call, FillCatch(res),
                                          call.fields[call.at].selector, call.at, res)
  /\ UNCHANGED <<refMaps, refCounter>>
  /\ RefStep

\* One session on the form, after a snapshot of it.
FormSessions == {"a"}
FormInit ==
  /\ pages = [s \in FormSessions |-> FormPage]
  /\ refMaps = [s \in FormSessions |-> getEnhancedSnapshot(FormPage, DefaultOptions, 0).refs]
  /\ refCounter = getEnhancedSnapshot(FormPage, DefaultOptions, 0).refCounter
  /\ calls = [s \in FormSessions |-> IdleCall]
  /\ lastCall = NoCallOutcome

FormNext ==
  \/ \E s \in FormSessions, selector \in SelectorInputs : Interact(s, selector)
  \/ \E s \in FormSessions, fields \in FieldsInputs : FillFormCall(s, fields)
  \/ \E s \in FormSessions : FillSettles(s)

\* No session.
RefIdle ==
  /\ pages = <<>>
  /\ refMaps = <<>>
  /\ refCounter = 0
  /\ calls = <<>>
  /\ lastCall = <<>>

\* Two sessions, each on some page, with the empty ref map of a new session.
RefInit ==
  /\ pages \in [Names -> RefPageInputs]
  /\ refMaps = [s \in Names |-> <<>>]
  /\ refCounter = 0
  /\ calls = [s \in Names |-> IdleCall]
  /\ lastCall = NoCallOutcome

RefNext ==
  \/ \E s \in Names, p \in RefPageInputs : PageChange(s, p)
  \/ \E s \in Names, o \in RefOptionInputs : SnapshotCall(s, o)
  \/ \E s \in Names : SnapshotTitle(s)
  \/ \E s \in Names : SnapshotAria(s)
  \/ \E s \in Names, selector \in SelectorInputs : Interact(s, selector)

\* ============================================ StorageManager: stored records
Callers == 1..NumCallers

\* A domain or a name is a string, held as the sequence of its characters; in a
\* file name ".json" and "lock" stand for those letters.
PlainDomain == <<"x">>
TraversalDomain == <<".", ".", "/", "x">>
DomainInputs == {PlainDomain, TraversalDomain}
NameInputs == {<<"w">>, <<"p">>, <<".", "e">>}

\* name.replace(/[/\\]/g, '_')
ReplaceSeparators(s) == [i \in 1..Len(s) |-> IF s[i] \in {"/", "\\"} THEN "_" ELSE s[i]]

\* name.replace(/\.\./g, '_'): the matches from left to right, without overlap
RECURSIVE ReplaceDotDot(_)
ReplaceDotDot(s) ==
  IF Len(s) < 2 THEN s
  ELSE IF s[1] = "." /\ s[2] = "." THEN <<"_">> \o ReplaceDotDot(SubSeq(s, 3, Len(s)))
  ELSE <<s[1]>> \o ReplaceDotDot(Tail(s))

\* A sanitizeName that lets every name through as it is.
sanitizeNothing(name) == name

sanitizeName(name) == ReplaceDotDot(ReplaceSeparators(name))

\* A path under SESSIONS_DIR: the directory of the domain and the file in it.
getSessionPath(domain, name) ==
  [dir |-> sanitizeName(domain), file |-> sanitizeName(name) \o <<".json">>]

getLockPath(domain) == [dir |-> sanitizeName(domain), file |-> <<".", "lock">>]

\* ------------------------------------------------------------ the directory
\* SESSIONS_DIR: whether it exists, and per domain directory its files by name:
\* data, permission bits, and the identity of the file (its inode).
NoDisk == [root |-> FALSE, dirs |-> <<>>]

Put(f, k, v) == [x \in DOMAIN f \cup {k} |-> IF x = k THEN v ELSE f[x]]
Drop(f, k) == [x \in DOMAIN f \ {k} |-> f[x]]

DirAt(dk, dir) == dir \in DOMAIN dk.dirs
FileAt(dk, path) == DirAt(dk, path.dir) /\ path.file \in DOMAIN dk.dirs[path.dir]
ReadFile(dk, path) == dk.dirs[path.dir][path.file]
SetFile(dk, path, file) == [dk EXCEPT !.dirs[path.dir] = Put(@, path.file, file)]
\* An unlink that leaves the file in its directory.
UnlinkKeepsFile(dk, path) == dk

UnlinkFile(dk, path) == [dk EXCEPT !.dirs[path.dir] = Drop(@, path.file)]

\* fs.mkdir(dirPath, {recursive: true, mode: 0o700})
ensureDir(dk, dir) ==
  [root |-> TRUE, dirs |-> IF DirAt(dk, dir) THEN dk.dirs ELSE Put(dk.dirs, dir, <<>>)]

\* Permission bits of a record file and of a lock file: 0o600.
OwnerReadWrite == 384

\* The content of a file that was opened for writing and not yet written.
Truncated == <<>>

\* JSON.stringify(storageState, null, 2) and JSON.parse: the text of a storage
\* state is the sequence of its tokens; a truncated text does not parse.
stringify(state) == <<"{", "cookies", state.cookies, "origins", state.origins, "}">>
Parses(text) == Len(text) = 6 /\ text[1] = "{" /\ text[6] = "}"
parse(text) == [cookies |-> text[3], origins |-> text[5]]

\* context.storageState(): the k-th capture of the run yields a state of its own.
storageState(k) == [cookies |-> k, origins |-> 0]

\* ------------------------------------------------------------ call records
NoFilter == <<>>
\* alone (history): no other storage call was in flight since the call started.
IdleOp == [op |-> "none", pc |-> "idle", domain |-> <<>>, name |-> <<>>, k |-> 0, ino |-> 0,
           alone |-> TRUE]

\* A new call runs in the first call frame that is not in use.
FreeOp(t) == ops[t].pc = "idle" /\ \A u \in Callers : u < t => ops[u].pc # "idle"

Busy(os) == \E u \in Callers : os[u].pc # "idle"

\* What a storage call that ended leaves behind.
Done(op, domain, name, res, value, alone) ==
  [op |-> op, domain |-> domain, name |-> name, result |-> res, value |-> value,
   alone |-> alone]

NoDone == Done("none", <<>>, <<>>, "none", 0, TRUE)

EndOp(t, res, value) ==
  /\ done' = Done(ops[t].op, ops[t].domain, ops[t].name, res, value, ops[t].alone)
  /\ ops' = [ops EXCEPT ![t] = IdleOp]

\* A call starts in frame t and is suspended at its first await.
StartOp(t, frame) ==
  /\ done' = NoDone
  /\ ops' = [u \in Callers |->
              IF u = t THEN [frame EXCEPT !.alone = ~Busy(ops)]
              ELSE [ops[u] EXCEPT !.alone = (ops[u].pc = "idle")]]

GoOn(t, frame) ==
  /\ done' = NoDone
  /\ ops' = [ops EXCEPT ![t] = frame]

\* --------------------------------------------------------------------- save
\* A writeFile that passes no mode: 0o666 less the umask 0o022.
CreateFileDefault(k) == [data |-> Truncated, mode |-> 420, ino |-> k]

\* fs.writeFile(path, data, {mode: 0o600}) creates the file it does not find.
CreateFile(k) == [data |-> Truncated, mode |-> OwnerReadWrite, ino |-> k]

\* save(): getSessionPath and await ensureDir(dirname(sessionPath)).
SaveStart(t, d, n) ==
  /\ FreeOp(t)
  /\ saves < MaxSaves
  /\ saves' = saves + 1
  /\ disk' = ensureDir(disk, getSessionPath(d, n).dir)
  /\ StartOp(t, [IdleOp EXCEPT !.op = "save", !.pc = "open", !.domain = d, !.name = n,
                               !.k = saves + 1])
  /\ overlapped' = (overlapped \/ Busy(ops))
  /\ UNCHANGED stored
  /\ StoreStep

\* save(): await context.storageState(), then fs.writeFile opens the file: an
\* existing file is truncated and keeps its mode, a missing one is created with
\* mode 0o600; without the directory the open fails and save() rejects.
SaveOpen(t) ==
  /\ ops[t].op = "save" /\ ops[t].pc = "open"
  /\ LET path == getSessionPath(ops[t].domain, ops[t].name)
     IN IF ~DirAt(disk, path.dir)
        THEN /\ EndOp(t, "ENOENT", 0)
             /\ disk' = disk
        ELSE LET file == IF FileAt(disk, path)
                         THEN [ReadFile(disk, path) EXCEPT !.data = Truncated]
                         ELSE CreateFile(ops[t].k)
             IN /\ disk' = SetFile(disk, path, file)
                /\ GoOn(t, [ops[t] EXCEPT !.pc = "write", !.ino = file.ino])
  /\ UNCHANGED <<stored, saves, overlapped>>
  /\ StoreStep

\* save(): fs.writeFile writes the text into the file it opened (the data is
\* lost with a file that was unlinked meanwhile), and save() returns the path.
SaveWrite(t) ==
  /\ ops[t].op = "save" /\ ops[t].pc = "write"
  /\ LET path == getSessionPath(ops[t].domain, ops[t].name)
     IN /\ IF FileAt(disk, path) /\ ReadFile(disk, path).ino = ops[t].ino
           THEN disk' = SetFile(disk, path, [ReadFile(disk, path) EXCEPT
                                               !.data = stringify(storageState(ops[t].k))])
           ELSE disk' = disk
        /\ stored' = Put(stored, path, storageState(ops[t].k))
        /\ EndOp(t, "ok", path)
  /\ UNCHANGED <<saves, overlapped>>
  /\ StoreStep

\* ------------------------------------------------------------ load / exists
\* A load() whose catch turns every failure into the not-found error.
loadCatchAll(dk, d, n) ==
  LET path == getSessionPath(d, n)
  IN IF ~FileAt(dk, path) \/ ~Parses(ReadFile(dk, path).data)
     THEN [result |-> "StoredSessionNotFound", value |-> <<n, d>>]
     ELSE [result |-> "ok", value |-> parse(ReadFile(dk, path).data)]

\* load(), read against the directory as it is: the parsed content of the file; ENOENT becomes the not-found error
\* "Session '<name>' not found for domain '<domain>'", any other error is
\* thrown on as it is.
load(dk, d, n) ==
  LET path == getSessionPath(d, n)
  IN IF ~FileAt(dk, path) THEN [result |-> "StoredSessionNotFound", value |-> <<n, d>>]
     ELSE IF ~Parses(ReadFile(dk, path).data) THEN [result |-> "SyntaxError", value |-> 0]
     ELSE [result |-> "ok", value |-> parse(ReadFile(dk, path).data)]

\* exists(): fs.access of the record's path
exists(dk, d, n) == FileAt(dk, getSessionPath(d, n))

\* --------------------------------------------------------------------- list
\* The files of a domain directory that list() takes for records.
IsRecordFile(f) == f[Len(f)] = ".json" /\ f[1] # "."

\* list(domain?), its awaits (access, readdir, stat) taken as one reading of the
\* directory tree: nothing without SESSIONS_DIR; the directories are the
\* sanitized filter or all of readdir(SESSIONS_DIR); a directory that cannot be
\* read is skipped; per record file the domain (as the directory is named) and
\* the file name less ".json".
storageList(dk, filter) ==
  IF ~dk.root THEN {}
  ELSE LET domains == IF filter # NoFilter THEN {sanitizeName(filter)} ELSE DOMAIN dk.dirs
       IN UNION { IF DirAt(dk, sanitizeName(d))
                  THEN {[domain |-> d, name |-> SubSeq(f, 1, Len(f) - 1)] :
                          f \in {g \in DOMAIN dk.dirs[sanitizeName(d)] : IsRecordFile(g)}}
                  ELSE {} : d \in domains }

\* ------------------------------------------------------------------- delete
\* delete(): await fs.unlink(sessionPath); ENOENT becomes the not-found error.
DeleteStart(t, d, n) ==
  /\ FreeOp(t)
  /\ LET path == getSessionPath(d, n)
         call == [IdleOp EXCEPT !.op = "delete", !.pc = "readdir", !.domain = d, !.name = n]
     IN IF ~FileAt(disk, path)
        THEN /\ done' = Done("delete", d, n, "StoredSessionNotFound", <<n, d>>, ~Busy(ops))
             /\ UNCHANGED <<ops, disk, stored>>
        ELSE /\ disk' = UnlinkFile(disk, path)
             /\ stored' = Drop(stored, path)
             /\ StartOp(t, call)
  /\ overlapped' = (overlapped \/ Busy(ops))
  /\ UNCHANGED saves
  /\ StoreStep

\* The files delete() counts when it decides on the cleanup: remaining.filter(
\* f => !f.startsWith('.'))
NonLockFiles(files) == {f \in files : f[1] # "."}

\* A cleanup that goes ahead whatever is left in the directory.
CleanupAlways(files) == TRUE

\* delete(): the cleanup is due when no file is left that does not start with '.'.
CleanupDue(files) == NonLockFiles(files) = {}

\* delete(): await fs.readdir(domainPath) and the filter; an error ends the
\* cleanup (and the call, without an error).
DeleteReaddir(t) ==
  /\ ops[t].op = "delete" /\ ops[t].pc = "readdir"
  /\ LET dir == getSessionPath(ops[t].domain, ops[t].name).dir
     IN IF DirAt(disk, dir) /\ CleanupDue(DOMAIN disk.dirs[dir])
        THEN GoOn(t, [ops[t] EXCEPT !.pc = "unlinkLock"])
        ELSE EndOp(t, "ok", 0)
  /\ UNCHANGED <<disk, stored, saves, overlapped>>
  /\ StoreStep

\* delete(): await fs.unlink(<domainPath>/.lock), errors ignored.
DeleteUnlinkLock(t) ==
  /\ ops[t].op = "delete" /\ ops[t].pc = "unlinkLock"
  /\ LET lock == getLockPath(ops[t].domain)
     IN disk' = IF FileAt(disk, lock) THEN UnlinkFile(disk, lock) ELSE disk
  /\ GoOn(t, [ops[t] EXCEPT !.pc = "rmdir"])
  /\ UNCHANGED <<stored, saves, overlapped>>
  /\ StoreStep

\* delete(): await fs.rmdir(domainPath): removes the directory when it is
\* empty; ENOTEMPTY and ENOENT are ignored.
DeleteRmdir(t) ==
  /\ ops[t].op = "delete" /\ ops[t].pc = "rmdir"
  /\ LET dir == getSessionPath(ops[t].domain, ops[t].name).dir
     IN disk' = IF DirAt(disk, dir) /\ DOMAIN disk.dirs[dir] = {}
                THEN [disk EXCEPT !.dirs = Drop(@, dir)]
                ELSE disk
  /\ EndOp(t, "ok", 0)
  /\ UNCHANGED <<stored, saves, overlapped>>
  /\ StoreStep

\* ------------------------------------------- acquireLock, in the directory
\* acquireLock(): await ensureDir(dirname(lockPath)).
DirLockStart(t, d) ==
  /\ FreeOp(t)
  /\ disk' = ensureDir(disk, getLockPath(d).dir)
  /\ StartOp(t, [IdleOp EXCEPT !.op = "acquireLock", !.pc = "lockRead", !.domain = d])
  /\ overlapped' = (overlapped \/ Busy(ops))
  /\ UNCHANGED <<stored, saves>>
  /\ StoreStep

\* acquireLock(): await fs.readFile(lockPath): a lock record of this run is
\* fresh and ends the call with false; without a file the call goes on.
DirLockRead(t) ==
  /\ ops[t].op = "acquireLock" /\ ops[t].pc = "lockRead"
  /\ IF FileAt(disk, getLockPath(ops[t].domain))
     THEN EndOp(t, "ok", FALSE)
     ELSE GoOn(t, [ops[t] EXCEPT !.pc = "lockWrite"])
  /\ UNCHANGED <<disk, stored, saves, overlapped>>
  /\ StoreStep

\* acquireLock(): await fs.writeFile(lockPath, ..., {flag: 'wx', mode: 0o600}):
\* EEXIST ends the call with false, any other error (no directory) is thrown.
DirLockWrite(t) ==
  /\ ops[t].op = "acquireLock" /\ ops[t].pc = "lockWrite"
  /\ LET lock == getLockPath(ops[t].domain)
     IN IF ~DirAt(disk, lock.dir)
        THEN disk' = disk /\ EndOp(t, "ENOENT", 0)
        ELSE IF FileAt(disk, lock)
        THEN disk' = disk /\ EndOp(t, "ok", FALSE)
        ELSE /\ disk' = SetFile(disk, lock, [data |-> <<"lock">>, mode |-> OwnerReadWrite,
                                             ino |-> 0])
             /\ EndOp(t, "ok", TRUE)
  /\ UNCHANGED <<stored, saves, overlapped>>
  /\ StoreStep

\* ------------------------------------------------------- storage: the spec
StoreIdle ==
  /\ disk = <<>>
  /\ ops = <<>>
  /\ done = <<>>
  /\ stored = <<>>
  /\ saves = 0
  /\ overlapped = FALSE

\* No sessions directory yet, no call in flight.
StoreInit ==
  /\ disk = NoDisk
  /\ ops = [t \in Callers |-> IdleOp]
  /\ done = NoDone
  /\ stored = <<>>
  /\ saves = 0
  /\ overlapped = FALSE

StoreNext ==
  \/ \E t \in Callers, d \in DomainInputs, n \in NameInputs : SaveStart(t, d, n)
  \/ \E t \in Callers : SaveOpen(t)
  \/ \E t \in Callers : SaveWrite(t)
  \/ \E t \in Callers, d \in DomainInputs, n \in NameInputs : DeleteStart(t, d, n)
  \/ \E t \in Callers : DeleteReaddir(t)
  \/ \E t \in Callers : DeleteUnlinkLock(t)
  \/ \E t \in Callers : DeleteRmdir(t)
  \/ \E t \in Callers, d \in DomainInputs : DirLockStart(t, d)
  \/ \E t \in Callers : DirLockRead(t)
  \/ \E t \in Callers : DirLockWrite(t)

\* ================================== tool handlers: storage_save / storage_load
\* What a step of these handlers leaves alone besides registry and storage.
LoadStep == UNCHANGED <<lockVars, snapVars, refVars, pathVars, tabVars, handler>>

\* The records the calls name: 'w' of the plain domain is in place when the
\* run starts, 'p' is not.
StoredName == <<"w">>
\* The session name the storage_load calls pass; storage_save is called for
\* every name.
LoadedName == "a"
StorageNameInputs == {StoredName, <<"p">>}

\* The record file as a save left it, and as a save that has opened it and not
\* yet written it leaves it.
RecordFiles ==
  {[data |-> stringify(storageState(0)), mode |-> OwnerReadWrite, ino |-> 0],
   [data |-> Truncated, mode |-> OwnerReadWrite, ino |-> 0]}

DiskWith(file) ==
  SetFile(ensureDir(NoDisk, getSessionPath(PlainDomain, StoredName).dir),
          getSessionPath(PlainDomain, StoredName), file)

\* The call frame of a storage_load call that awaits storageManager.load.
LoadCall(n, ty, d, sn) ==
  [op |-> "storage_load", pc |-> "load", name |-> n, type |-> ty, domain |-> d, storage |-> sn]

\* What a handler call that ended returned.
HandlerOutcome(tool, n, res) == Outcome([IdleTask EXCEPT !.op = tool, !.name = n], res)

\* storage_load: the handler up to `await storageManager.load(domain, storage)`.
StorageLoadCall(t, n, ty, d, sn) ==
  /\ Free(t)
  /\ tasks' = [tasks EXCEPT ![t] = LoadCall(n, ty, d, sn)]
  /\ last' = NoOutcome
  /\ UNCHANGED <<sessions, engine, liveNames, storeVars>>
  /\ LoadStep

\* sessionManager.createWithStorage(name, type, headless, storageState), up to
\* its first await: create() with the storage state handed to the new context.
createWithStorage(t, n, ty) ==
  IF MapHas(sessions, n)
  THEN /\ tasks' = [tasks EXCEPT ![t] = IdleTask]
       /\ last' = HandlerOutcome("storage_load", n, "DuplicateSession")
  ELSE IF ty \notin SupportedTypes
  THEN /\ tasks' = [tasks EXCEPT ![t] = IdleTask]
       /\ last' = HandlerOutcome("storage_load", n, "UnknownType")
  ELSE /\ tasks' = NoteCreate([tasks EXCEPT ![t] = [CreateCall(n, ty) EXCEPT !.pc = "launch"]])
       /\ last' = NoOutcome

\* A storage_load that launches the browser while the record is being read.
StorageLoadReadLaunchFirst(t) ==
  /\ tasks[t].op = "storage_load" /\ tasks[t].pc = "load"
  /\ Len(engine) < MaxBrowsers
  /\ engine' = Append(engine, Launched)
  /\ LET loaded == load(disk, tasks[t].domain, tasks[t].storage)
     IN IF loaded.result # "ok"
        THEN /\ tasks' = [tasks EXCEPT ![t] = IdleTask]
             /\ last' = HandlerOutcome("storage_load", tasks[t].name, loaded.result)
        ELSE createWithStorage(t, tasks[t].name, tasks[t].type)
  /\ UNCHANGED <<sessions, liveNames, storeVars>>
  /\ LoadStep

\* storage_load: storageManager.load settled.  Rejected, the catch returns the
\* error; resolved, createWithStorage is called.
StorageLoadRead(t) ==
  /\ tasks[t].op = "storage_load" /\ tasks[t].pc = "load"
  /\ LET loaded == load(disk, tasks[t].domain, tasks[t].storage)
     IN IF loaded.result # "ok"
        THEN /\ tasks' = [tasks EXCEPT ![t] = IdleTask]
             /\ last' = HandlerOutcome("storage_load", tasks[t].name, loaded.result)
        ELSE createWithStorage(t, tasks[t].name, tasks[t].type)
  /\ UNCHANGED <<sessions, engine, liveNames, storeVars>>
  /\ LoadStep

\* storage_save: getOrThrow(session), then storageManager.save up to its first
\* await; the error of getOrThrow is caught and returned.  The storage_save
\* calls of these runs do not overlap.
StorageSaveCall(c, n, d, sn) ==
  IF getOrThrow(n).error # "none"
  THEN /\ last' = HandlerOutcome("storage_save", n, getOrThrow(n).error)
       /\ UNCHANGED <<sessions, engine, tasks, liveNames, storeVars>>
       /\ LoadStep
  ELSE ~Busy(ops) /\ SaveStart(c, d, sn)

\* The registry is empty; the record 'w' may be in place, whole or truncated.
LoadInit ==
  /\ RegInit
  /\ disk \in {NoDisk} \cup {DiskWith(file) : file \in RecordFiles}
  /\ ops = [c \in Callers |-> IdleOp]
  /\ done = NoDone
  /\ stored = <<>>
  /\ saves = 0
  /\ overlapped = FALSE

LoadNext ==
  \/ \E t \in Tasks, ty \in TypeInputs, sn \in StorageNameInputs :
       StorageLoadCall(t, LoadedName, ty, PlainDomain, sn)
  \/ \E t \in Tasks : StorageLoadRead(t)
  \/ \E t \in Tasks : CreateLaunch(t)
  \/ \E t \in Tasks : CreateNewContext(t)
  \/ \E t \in Tasks : CreateNewPage(t)
  \/ \E c \in Callers, n \in Names : StorageSaveCall(c, n, PlainDomain, StoredName)
  \/ \E c \in Callers : SaveOpen(c)
  \/ \E c \in Callers : SaveWrite(c)

\* ================================================ StorageManager: the paths
\* The characters of the strings handed to the path functions: the two
\* separators sanitizeName replaces, the dot, and a letter.
PathChars == {"/", "\\", ".", "x"}
StringsOfLen(k) == [1..k -> PathChars]
StringInputs == UNION {StringsOfLen(k) : k \in 0..MaxChars}

\* A path as path.join leaves it, relative to SESSIONS_DIR: the number of
\* levels it climbs above SESSIONS_DIR, then the components below.
InRoot(components) == [up |-> 0, rest |-> components]

\* The components of a string between its '/' characters.
RECURSIVE Split(_)
Split(s) ==
  IF \A i \in 1..Len(s) : s[i] # "/" THEN <<s>>
  ELSE LET i == CHOOSE j \in 1..Len(s) : s[j] = "/" /\ \A k \in 1..(j - 1) : s[k] # "/"
       IN <<SubSeq(s, 1, i - 1)>> \o Split(SubSeq(s, i + 1, Len(s)))

\* path.normalize: an empty component and '.' are dropped, '..' removes the
\* component before it, or climbs one level when there is none.
RECURSIVE Normalize(_, _)
Normalize(at, components) ==
  IF components = <<>> THEN at
  ELSE LET c == Head(components)
           next == IF c = <<>> \/ c = <<".">> THEN at
                   ELSE IF c = <<".", ".">>
                   THEN (IF at.rest = <<>> THEN [at EXCEPT !.up = @ + 1]
                         ELSE [at EXCEPT !.rest = SubSeq(@, 1, Len(@) - 1)])
                   ELSE [at EXCEPT !.rest = Append(@, c)]
       IN Normalize(next, Tail(components))

RECURSIVE SplitAll(_)
SplitAll(parts) ==
  IF parts = <<>> THEN <<>> ELSE Split(Head(parts)) \o SplitAll(Tail(parts))

\* path.join(SESSIONS_DIR, ...parts)
pathJoin(parts) == Normalize(InRoot(<<>>), SplitAll(parts))

\* getSessionPath and getLockPath as the strings path.join returns.
SessionPathOf(domain, name) ==
  pathJoin(<<getSessionPath(domain, name).dir, getSessionPath(domain, name).file>>)
LockPathOf(domain) == pathJoin(<<getLockPath(domain).dir, getLockPath(domain).file>>)

NoPaths == <<>>

\* A storage call computes the record path and the lock path of its arguments.
ComputePaths ==
  /\ paths = NoPaths
  /\ paths' = [record |-> SessionPathOf(request.domain, request.name),
                lock |-> LockPathOf(request.domain)]
  /\ UNCHANGED request
  /\ PathStep

PathIdle ==
  /\ request = <<>>
  /\ paths = NoPaths

\* Every domain string and name string of the bounded alphabet.
PathInit ==
  /\ request \in [domain : StringInputs, name : StringInputs]
  /\ paths = NoPaths

PathNext == ComputePaths

\* ============================================ tool handlers: tabs of a session
TabCallers == 1..NumTabCalls

\* `undefined` where a page is expected.
NoPage == 0

\* The index argument (z.number().optional()): undefined, or a number, held as
\* twice its value so that 0.5 is a value of the model.
Index(twice) == [defined |-> TRUE, twice |-> twice]
NoIndex == [defined |-> FALSE, twice |-> 0]
\* undefined, -1, 0, 0.5, 1, 2
IndexInputs == {NoIndex} \cup {Index(h) : h \in {-2, 0, 1, 2, 4}}

\* pages[index]: the element at an integer index inside the array, else undefined
PageAt(tabs, index) ==
  IF index.twice % 2 = 0 /\ (index.twice \div 2) \in 0..(Len(tabs) - 1)
  THEN tabs[(index.twice \div 2) + 1]
  ELSE NoPage

\* index < 0 || index >= pages.length
OutOfRange(tabs, index) == index.twice < 0 \/ index.twice >= 2 * Len(tabs)

\* pages.indexOf(page): -1 when the page is not in the array
indexOf(tabs, p) ==
  IF \E i \in 1..Len(tabs) : tabs[i] = p
  THEN Index(2 * ((CHOOSE i \in 1..Len(tabs) : tabs[i] = p) - 1))
  ELSE Index(-2)

\* The open pages after page p closed.
WithoutPage(tabs, p) == SelectSeq(tabs, LAMBDA q : q # p)

IdleTab == [action |-> "none", pc |-> "idle", url |-> FALSE, page |-> NoPage]

FreeTab(t) == tabCalls[t].pc = "idle" /\ \A u \in TabCallers : u < t => tabCalls[u].pc # "idle"

\* What a tool call that ended gave back: success(text), error(message), or
\* "thrown" when an exception left the handler.
ToolOutcome(tool, action, result, message) ==
  [tool |-> tool, action |-> action, result |-> result, message |-> message]

NoTool == ToolOutcome("none", "none", "none", "")

\* The browser_tabs call of frame t returns.
TabReturn(t, action, result, message) ==
  /\ tabCalls' = [tabCalls EXCEPT ![t] = IdleTab]
  /\ lastTool' = ToolOutcome("browser_tabs", action, result, message)

\* The call of frame t is suspended at its next await.
TabAwait(t, frame) ==
  /\ tabCalls' = [tabCalls EXCEPT ![t] = frame]
  /\ lastTool' = NoTool

\* action 'list'
TabList(t) ==
  /\ FreeTab(t)
  /\ TabReturn(t, "list", "success", "")
  /\ UNCHANGED <<contextPages, activePage, pagesCreated>>
  /\ TabStep

\* action 'new', up to await s.context.newPage()
TabNew(t, url) ==
  /\ FreeTab(t)
  /\ TabAwait(t, [IdleTab EXCEPT !.action = "new", !.pc = "newPage", !.url = url])
  /\ UNCHANGED <<contextPages, activePage, pagesCreated>>
  /\ TabStep

\* newPage() resolved with a new page of the context, or rejected; without a
\* url the new page becomes the active page at once.
TabNewPage(t) ==
  /\ tabCalls[t].action = "new" /\ tabCalls[t].pc = "newPage"
  /\ \/ /\ pagesCreated < MaxPages
        /\ pagesCreated' = pagesCreated + 1
        /\ contextPages' = Append(contextPages, pagesCreated + 1)
        /\ IF tabCalls[t].url
           THEN /\ TabAwait(t, [tabCalls[t] EXCEPT !.pc = "goto", !.page = pagesCreated + 1])
                /\ activePage' = activePage
           ELSE /\ TabReturn(t, "new", "success", "")
                /\ activePage' = pagesCreated + 1
     \/ /\ TabReturn(t, "new", "error", "EngineError")
        /\ UNCHANGED <<contextPages, activePage, pagesCreated>>
  /\ TabStep

\* await newPage.goto(url) resolved, then s.page = newPage; or it rejected.
TabNewGoto(t) ==
  /\ tabCalls[t].action = "new" /\ tabCalls[t].pc = "goto"
  /\ \/ /\ activePage' = tabCalls[t].page
        /\ TabReturn(t, "new", "success", "")
     \/ /\ activePage' = activePage
        /\ TabReturn(t, "new", "error", "EngineError")
  /\ UNCHANGED <<contextPages, pagesCreated>>
  /\ TabStep

\* A switch that also rejects an index that is not a whole number.
SwitchRejectsFraction(tabs, index) ==
  ~index.defined \/ OutOfRange(tabs, index) \/ index.twice % 2 # 0

\* action 'switch': the index check
SwitchRejects(tabs, index) == ~index.defined \/ OutOfRange(tabs, index)

\* action 'switch': s.page = pages[index], then s.page.url() for the message.
TabSwitch(t, index) ==
  /\ FreeTab(t)
  /\ IF SwitchRejects(contextPages, index)
     THEN /\ TabReturn(t, "switch", "error", "InvalidIndex")
          /\ activePage' = activePage
     ELSE /\ activePage' = PageAt(contextPages, index)
          /\ IF PageAt(contextPages, index) = NoPage
             THEN TabReturn(t, "switch", "error", "TypeError")
             ELSE TabReturn(t, "switch", "success", "")
  /\ UNCHANGED <<contextPages, pagesCreated>>
  /\ TabStep

\* A close that does not look at the number of pages.
CloseRefusesNever(tabs) == FALSE

\* action 'close': pages.length === 1
CloseRefuses(tabs) == Len(tabs) = 1

\* action 'close', up to await pages[closeIndex].close()
TabClose(t, index) ==
  /\ FreeTab(t)
  /\ LET tabs == contextPages
         closeIndex == IF index.defined THEN index ELSE indexOf(tabs, activePage)
     IN IF CloseRefuses(tabs)
        THEN TabReturn(t, "close", "error", "LastTab")
        ELSE IF OutOfRange(tabs, closeIndex)
        THEN TabReturn(t, "close", "error", "InvalidIndex")
        ELSE IF PageAt(tabs, closeIndex) = NoPage
        THEN TabReturn(t, "close", "error", "TypeError")
        ELSE TabAwait(t, [IdleTab EXCEPT !.action = "close", !.pc = "close",
                                         !.page = PageAt(tabs, closeIndex)])
  /\ UNCHANGED <<contextPages, activePage, pagesCreated>>
  /\ TabStep

\* close() resolved: the page left the context; when it was the active page,
\* s.page = s.context.pages()[0].  Or close() rejected.
TabCloseDone(t) ==
  /\ tabCalls[t].action = "close" /\ tabCalls[t].pc = "close"
  /\ \/ /\ contextPages' = WithoutPage(contextPages, tabCalls[t].page)
        /\ activePage' = IF activePage = tabCalls[t].page
                         THEN PageAt(contextPages', Index(0))
                         ELSE activePage
        /\ TabReturn(t, "close", "success", "")
     \/ /\ TabReturn(t, "close", "error", "EngineError")
        /\ UNCHANGED <<contextPages, activePage>>
  /\ pagesCreated' = pagesCreated
  /\ TabStep

\* session_list: sessionManager.list() reads session.page.url() of every
\* session; the handler has no try/catch.
SessionList ==
  /\ lastTool' = IF activePage = NoPage
                 THEN ToolOutcome("session_list", "none", "thrown", "TypeError")
                 ELSE ToolOutcome("session_list", "none", "success", "")
  /\ lastTool' # lastTool
  /\ UNCHANGED <<contextPages, activePage, pagesCreated, tabCalls>>
  /\ TabStep

TabIdle ==
  /\ contextPages = <<>>
  /\ activePage = NoPage
  /\ pagesCreated = 0
  /\ tabCalls = <<>>
  /\ lastTool = <<>>

\* A session as create() leaves it: one page, which is the active page.
TabInit ==
  /\ contextPages = <<1>>
  /\ activePage = 1
  /\ pagesCreated = 1
  /\ tabCalls = [t \in TabCallers |-> IdleTab]
  /\ lastTool = NoTool

TabNext ==
  \/ \E t \in TabCallers : TabList(t)
  \/ \E t \in TabCallers, url \in BOOLEAN : TabNew(t, url)
  \/ \E t \in TabCallers : TabNewPage(t)
  \/ \E t \in TabCallers : TabNewGoto(t)
  \/ \E t \in TabCallers, index \in IndexInputs : TabSwitch(t, index)
  \/ \E t \in TabCallers, index \in IndexInputs : TabClose(t, index)
  \/ \E t \in TabCallers : TabCloseDone(t)
  \/ SessionList

\* =========================================================== specifications
\* No signal has arrived.
NoSignal == handler = NoHandler

\* The server until its signal handler has exited the process.
ExitNext ==
  \/ ~Exited /\ RegNext
  \/ \E t \in Tasks : ~Exited /\ Signal(t)

\* Each specification starts its own component and leaves the others idle.
Init == RegInit /\ LockIdle /\ SnapIdle /\ RefIdle /\ StoreIdle /\ PathIdle /\ TabIdle /\ NoSignal

\* The session registry under interleaved calls.
SpecReg == Init /\ [][RegNext]_vars

\* The session registry with a SIGINT or SIGTERM arriving at any time.
SpecExit == Init /\ [][ExitNext]_vars

\* The lock file under interleaved processes.
LockStart == RegIdle /\ LockInit /\ SnapIdle /\ RefIdle /\ StoreIdle /\ PathIdle /\ TabIdle /\ NoSignal
SpecLock == LockStart /\ [][LockNext]_vars

\* The snapshot engine and the locators of its refs, over every bounded page.
SnapStart == RegIdle /\ LockIdle /\ SnapInit /\ RefIdle /\ StoreIdle /\ PathIdle /\ TabIdle /\ NoSignal
SpecSnap == SnapStart /\ [][SnapNext]_vars

\* Snapshot and interaction tool calls on the sessions' pages.
RefStart == RegIdle /\ LockIdle /\ SnapIdle /\ RefInit /\ StoreIdle /\ PathIdle /\ TabIdle /\ NoSignal
SpecRef == RefStart /\ [][RefNext]_vars

\* The stored records under interleaved storage calls.
StoreStart == RegIdle /\ LockIdle /\ SnapIdle /\ RefIdle /\ StoreInit /\ PathIdle /\ TabIdle /\ NoSignal
SpecStore == StoreStart /\ [][StoreNext]_vars

\* The path functions over every bounded domain and name.
PathStart == RegIdle /\ LockIdle /\ SnapIdle /\ RefIdle /\ StoreIdle /\ PathInit /\ TabIdle /\ NoSignal
SpecPath == PathStart /\ [][PathNext]_vars

\* The tabs of one session under interleaved browser_tabs calls.
TabStart == RegIdle /\ LockIdle /\ SnapIdle /\ RefIdle /\ StoreIdle /\ PathIdle /\ TabInit /\ NoSignal
SpecTabs == TabStart /\ [][TabNext]_vars

\* storage_load and storage_save calls over a registry and a sessions directory.
LoadStart == LoadInit /\ LockIdle /\ SnapIdle /\ RefIdle /\ PathIdle /\ TabIdle /\ NoSignal
SpecLoad == LoadStart /\ [][LoadNext]_vars

\* browser_fill_form and browser_click calls on the form of a session.
FormStart == RegIdle /\ LockIdle /\ SnapIdle /\ FormInit /\ StoreIdle /\ PathIdle /\ TabIdle /\ NoSignal
SpecForm == FormStart /\ [][FormNext]_vars

\* ============================================================ the claims
\* ---------------------------------------------------------------- registry
Registered(m) == {m[i][2].browser : i \in 1..Len(m)}

\* A call of `op` ends at this step: a task running it becomes free, or the call
\* ends within the step that starts it.
Ends(op) ==
  \/ \E t \in Tasks : tasks[t].op = op /\ tasks'[t].pc = "idle"
  \/ tasks' = tasks /\ last' # last /\ last'.op = op

\* C1: for every session name n, once create(n) has succeeded get(n) returns a
\* session whose name is n, and every further create(n) (one that starts while n
\* is created and not yet destroyed) fails with the duplicate-session error and
\* leaves the registry as it was, until destroy(n) or destroyAll() has removed n.
C1_CreateThenDuplicate ==
  [][ /\ \A n \in liveNames' : MapHas(sessions', n) /\ MapGet(sessions', n).name = n
      /\ (Ends("create") /\ last'.result = "ok")
           => /\ MapHas(sessions', last'.name)
              /\ MapGet(sessions', last'.name).name = last'.name
      /\ \A t \in Tasks :
           (tasks[t].pc = "idle" /\ tasks'[t].op = "create")
             => tasks'[t].name \notin liveNames
      /\ (tasks' = tasks /\ last' # last /\ last'.op = "create"
            /\ last'.name \in liveNames)
           => /\ last'.result = "DuplicateSession"
              /\ sessions' = sessions /\ engine' = engine
    ]_vars

\* A further create(n) was refused while n was live.
C1_Witness ==
  /\ last.op = "create" /\ last.result = "DuplicateSession"
  /\ last.name \in liveNames
  /\ MapHas(sessions, last.name)

\* C2: under any interleaving of overlapping create calls for one name, the
\* existence check and the insert are not separated by a suspension: a create
\* that inserts finds its name still absent (so at most one of the overlapping
\* calls succeeds) and its insert drops no launched browser from the registry.
C2_CheckAndInsertAtomic ==
  [][ \A t \in Tasks :
        (tasks[t].op = "create" /\ tasks[t].pc = "newPage"
           /\ tasks'[t].pc = "idle" /\ last'.result = "ok")
          => /\ ~MapHas(sessions, tasks[t].name)
             /\ Registered(sessions) \subseteq Registered(sessions')
    ]_vars

\* C4: destroy(n) removes the session from the registry before it attempts to
\* close the context or the browser (while it closes, and when it has ended,
\* the session it took is in no registry entry, so get(n) and list() can only
\* show a session that a create inserted since); when closing fails the call
\* still ends without an error.
C4_RemovedBeforeClose ==
  /\ \A t \in Tasks :
       (tasks[t].op = "destroy" /\ tasks[t].pc \in {"closeContext", "closeBrowser"})
         => /\ tasks[t].session.browser \notin Registered(sessions)
            /\ (MapHas(sessions, tasks[t].name)
                  => get(tasks[t].name).browser # tasks[t].session.browser)
  /\ (last.op = "destroy" /\ last.caught)
       => /\ last.result = "ok"
          /\ last.handle \notin Registered(sessions)

\* A destroy whose close threw has ended, and its name is absent.
C4_Witness ==
  /\ last.op = "destroy" /\ last.caught /\ last.result = "ok"
  /\ ~MapHas(sessions, last.name)
  /\ engine[last.handle].browser = "open"

NoDuplicates(sq) == \A i, j \in 1..Len(sq) : sq[i] = sq[j] => i = j

\* C9 as stated: list() has exactly one entry per live name, and in the state
\* a destroyAll() leaves when it completes (`last` is its outcome) with no
\* create in flight, list() is empty.
C9_ListAfterDestroyAll ==
  /\ SeqToSet(ListNames) = liveNames /\ NoDuplicates(ListNames)
  /\ (last.op = "destroyAll" /\ ~CreateInFlight(tasks)) => list = <<>>

\* C9 amended: list() has exactly one entry per live name (the names created
\* and not destroyed since, no duplicates, no others), and when a destroyAll()
\* completes list() is empty provided no create call was in flight at any time
\* while that destroyAll ran.
C9_ListExactlyLive ==
  /\ SeqToSet(ListNames) = liveNames /\ NoDuplicates(ListNames)
  /\ (last.op = "destroyAll" /\ ~last.raced) => list = <<>>

\* A destroyAll that closed two sessions has completed with no create beside it.
C9_Witness ==
  /\ last.op = "destroyAll" /\ ~last.raced /\ last.result = "ok"
  /\ list = <<>>
  /\ Len(engine) = 2 /\ \A h \in 1..Len(engine) : engine[h].browser = "closed"

\* C10: destroyAll() takes the names live at its start and works through all of
\* them in order: a name leaves its list only with that name's session removed
\* from the registry (destroyed now, or already gone), neither a close error nor
\* a session already removed by a concurrent destroy ends the loop, and the
\* call ends only with the list exhausted and without an error.
C10_DestroyAllBestEffort ==
  [][ /\ \A t \in Tasks :
           /\ (tasks[t].pc = "idle" /\ tasks'[t].op = "destroyAll")
                => \A n \in SeqToSet(MapKeys(sessions)) :
                     n \in SeqToSet(tasks'[t].names) \/ ~MapHas(sessions', n)
           /\ (tasks[t].op = "destroyAll" /\ tasks'[t].op = "destroyAll"
                 /\ tasks'[t].names # tasks[t].names)
                => /\ tasks'[t].names = Tail(tasks[t].names)
                   /\ ~MapHas(sessions', Head(tasks[t].names))
           /\ (tasks[t].op = "destroyAll" /\ tasks'[t].pc = "idle")
                => tasks[t].names = <<>> /\ tasks[t].pc = "daNext"
      /\ Ends("destroyAll") => last'.result = "ok"
    ]_vars

\* A destroyAll ended without an error after one of its destroys failed.
C10_Witness ==
  /\ last.op = "destroyAll" /\ last.caught /\ last.result = "ok"
  /\ sessions = <<>> /\ Len(engine) = 2

\* C11: destroy(n) for a name that is not live fails with SessionNotFound
\* (naming n) and leaves the registry and the browsers as they were, and a
\* destroy that goes on to close a session was called for a live name; for a
\* name that is not live getOrThrow(n) fails with SessionNotFound naming n and
\* get(n) returns absent.
C11_NotFound ==
  /\ [](\A n \in Names \ liveNames :
          /\ getOrThrow(n) = [error |-> "SessionNotFound", name |-> n, session |-> NoSession]
          /\ get(n) = NoSession)
  /\ [][ /\ \A t \in Tasks :
             (tasks[t].pc = "idle" /\ tasks'[t].op = "destroy")
               => tasks'[t].name \in liveNames
        /\ (tasks' = tasks /\ last' # last /\ last'.op = "destroy")
             => /\ last'.result = "SessionNotFound"
                /\ last'.name \notin liveNames
                /\ sessions' = sessions /\ engine' = engine /\ liveNames' = liveNames
      ]_vars

\* A destroy of a name that is not live was refused while another session was live.
C11_Witness ==
  /\ last.op = "destroy" /\ last.result = "SessionNotFound"
  /\ last.name \notin liveNames
  /\ getOrThrow(last.name).error = "SessionNotFound"
  /\ sessions # <<>>

\* The session that a destroy took out of the registry is being closed.
Closing(t) ==
  tasks[t].op \in {"destroy", "destroyAll"} /\ tasks[t].pc \in {"closeContext", "closeBrowser"}

\* C12: once destroy(n) has removed n the name is free again: a create(n) is
\* refused as a duplicate only while n is in the registry (never because of a
\* removed session that is still being closed), a create that succeeds leaves n
\* registered, and every registered session is a new one with its own handles:
\* browser, context and page of a launch of its own, all open, shared with no
\* other entry and with no session that is being closed.
C12_NameReusable ==
  /\ (last.op = "create" /\ last.result = "DuplicateSession") => MapHas(sessions, last.name)
  /\ (last.op = "create" /\ last.result = "ok") => MapHas(sessions, last.name)
  /\ \A i \in 1..Len(sessions) :
       /\ engine[sessions[i][2].browser] =
            [browser |-> "open", context |-> "open", page |-> "open"]
       /\ \A j \in 1..Len(sessions) :
            sessions[j][2].browser = sessions[i][2].browser => j = i
       /\ \A u \in Tasks :
            Closing(u) => tasks[u].session.browser # sessions[i][2].browser

\* create(n) succeeded while the session that destroy(n) removed was still
\* being closed: n is registered again, with another browser.
C12_Witness ==
  /\ last.op = "create" /\ last.result = "ok"
  /\ \E u \in Tasks :
       /\ tasks[u].op = "destroy" /\ tasks[u].name = last.name /\ Closing(u)
       /\ engine[tasks[u].session.browser].browser = "open"
       /\ get(last.name).browser # tasks[u].session.browser
       /\ get(last.name).browser # NoHandle

\* C36: when two destroy(n) calls for the same live session overlap, exactly
\* one succeeds and the other fails with SessionNotFound, and the session's
\* context and browser are closed by one call only; the same holds for
\* destroy(n) overlapping destroyAll().  No two calls are ever closing the same
\* session, and a destroy call ends without error exactly when it took a
\* session out of the registry: the call that took none ends with
\* SessionNotFound, with n absent, and the session a call took is being closed
\* by no other call.
C36_OverlappingDestroys ==
  /\ \A t, u \in Tasks :
       (t # u /\ Closing(t) /\ Closing(u))
         => tasks[t].session.browser # tasks[u].session.browser
  /\ last.op = "destroy" =>
       \/ /\ last.result = "SessionNotFound"
          /\ last.handle = NoHandle
          /\ ~MapHas(sessions, last.name)
       \/ /\ last.result = "ok"
          /\ last.handle # NoHandle
          /\ \A u \in Tasks : Closing(u) => tasks[u].session.browser # last.handle

\* destroy(n) was refused with SessionNotFound while another destroy(n) was
\* closing the session it took out of the registry.
C36_Witness ==
  /\ last.op = "destroy" /\ last.result = "SessionNotFound"
  /\ ~MapHas(sessions, last.name)
  /\ \E u \in Tasks :
       /\ tasks[u].op = "destroy" /\ Closing(u)
       /\ tasks[u].session.name = last.name
       /\ engine[tasks[u].session.browser].browser = "open"

\* The ways create() fails past its duplicate check.
CreateFailures == {"UnknownType", "EngineError"}

\* C37: a create(n, type) that fails (unsupported browser type, engine launch,
\* context or page creation error) leaves the registry exactly as it was: n is
\* not live afterwards, other sessions are untouched, and a later create(n)
\* with a supported type can succeed.  The registry holds exactly the names
\* whose create succeeded and that no destroy removed since, each with a browser
\* whose context and page were opened; a call refused for its type leaves n
\* absent; after a failure in the engine n is registered only if another
\* create(n) succeeded, with a browser of its own.
C37_FailedCreateLeavesRegistry ==
  /\ SeqToSet(MapKeys(sessions)) = liveNames
  /\ \A i \in 1..Len(sessions) :
       /\ engine[sessions[i][2].browser].context # "none"
       /\ engine[sessions[i][2].browser].page # "none"
  /\ (last.op = "create" /\ last.result = "UnknownType") => ~MapHas(sessions, last.name)
  /\ (last.op = "create" /\ last.result = "EngineError" /\ MapHas(sessions, last.name))
       => get(last.name).name = last.name /\ last.name \in liveNames

\* create(n) failed in the engine after its launch: n is absent, another
\* session is live, and the launched browser is in no registry entry.
C37_Witness ==
  /\ last.op = "create" /\ last.result = "EngineError"
  /\ ~MapHas(sessions, last.name)
  /\ sessions # <<>>
  /\ \E h \in 1..Len(engine) :
       engine[h].browser = "open" /\ engine[h].page = "none" /\ h \notin Registered(sessions)

\* -------------------------------------------------------------------- lock
\* Process p holds a valid lock: acquireLock returned true to it, it has not
\* released since, and that lock has not become stale.
Holds(p) == owned[p] # NotOwned /\ now - owned[p] <= LOCK_TIMEOUT_MS

\* C3: for the domain and any interleaving of the file-level steps of
\* acquireLock and releaseLock run by several processes, at most one process at
\* a time holds a valid lock.
C3_MutualExclusion ==
  \A p, q \in Procs : (Holds(p) /\ Holds(q)) => p = q

\* An acquireLock call of process p returns true at this step.
Acquires(p) == procs[p].pc = "acqWrite" /\ procs'[p].pc = "idle" /\ procs'[p].ret = "true"

\* C13: while a lock that a process acquired is fresh (acquireLock returned
\* true to it, it has not released, the timeout has not passed), isLocked(d) is
\* true and no acquireLock(d) returns true; when the owner's releaseLock(d)
\* ends isLocked(d) is false, and an acquireLock that then finds no lock file
\* returns true.
C13_FreshLockExcludes ==
  /\ [](\A p \in Procs : Holds(p) => isLocked(lockFile, now))
  /\ [][ \A p \in Procs :
          /\ Acquires(p) => \A q \in Procs : ~Holds(q)
          /\ (procs[p].pc = "relUnlink" /\ procs'[p].pc = "idle")
               => ~isLocked(lockFile', now')
          /\ (procs[p].pc = "acqWrite" /\ procs'[p].pc = "idle" /\ lockFile = NoFile)
               => procs'[p].ret = "true"
      ]_vars

\* Process p takes a step of a releaseLock call.
Releases(p) == procs'[p] # procs[p] /\ procs'[p].op = "releaseLock"

\* C14: a step of releaseLock(d) run by process p changes the lock file only
\* by removing a record whose pid is p: in every interleaving with the other
\* processes' calls it deletes no record of another process, and on a missing
\* lock file it changes nothing and returns without an error.
C14_ReleaseOnlyOwn ==
  [][ \A p \in Procs :
        Releases(p) =>
          /\ lockFile' # lockFile => (lockFile.pid = p /\ lockFile' = NoFile)
          /\ lockFile = NoFile => (lockFile' = NoFile /\ procs'[p].ret = "void")
    ]_vars

\* C15: isLocked(d) returns true exactly when a lock record exists and its age
\* does not exceed five minutes (false when it is missing or stale), and the
\* call leaves the lock file as it is, a stale one included.
C15_IsLockedReadOnly ==
  [][ \A p \in Procs :
        (procs[p].pc = "idle" /\ procs'[p] # procs[p] /\ procs'[p].op = "isLocked")
          => /\ lockFile' = lockFile
             /\ procs'[p].ret \in {"true", "false"}
             /\ procs'[p].ret = "true"
                  <=> (lockFile # NoFile /\ now - lockFile.acquiredAt <= 5 * 60 * 1000)
    ]_vars

\* isLocked has returned false to a process that acquired no lock, and the
\* stale record of the other process is still in place.
C15_Witness ==
  \E p, q \in Procs :
    /\ procs[p].op = "isLocked" /\ procs[p].ret = "false" /\ owned[p] = NotOwned
    /\ lockFile # NoFile /\ lockFile.pid = q /\ q # p
    /\ IsStale(lockFile, now)

\* Process p takes the step of its acquireLock call that is at `pc`.
AcquireAt(p, pc) ==
  procs[p].op = "acquireLock" /\ procs[p].pc = pc /\ procs'[p].pc # pc

\* C16: an acquireLock(d) that reads a fresh lock record returns false and
\* leaves the record as it is (same pid and acquiredAt); one that reads a stale
\* record (age greater than the timeout) goes on to delete it, and when no other
\* process took a step of an acquireLock during the call, the record it deletes
\* is that stale record and the call returns true, leaving a record with the
\* caller's pid and the time the call read from the clock after the delete.
C16_AcquireFreshOrStale ==
  [][ \A p \in Procs :
        /\ (AcquireAt(p, "acqRead") /\ lockFile # NoFile /\ ~IsStale(lockFile, now))
             => /\ procs'[p].pc = "idle" /\ procs'[p].ret = "false"
                /\ lockFile' = lockFile
        /\ (AcquireAt(p, "acqRead") /\ lockFile # NoFile /\ IsStale(lockFile, now))
             => procs'[p].pc = "acqUnlink" /\ lockFile' = lockFile
        /\ (AcquireAt(p, "acqUnlink") /\ procs[p].alone)
             => /\ lockFile = NoFile \/ IsStale(lockFile, now)
                /\ lockFile' = NoFile
                /\ procs'[p].stamp = now
        /\ (AcquireAt(p, "acqWrite") /\ procs[p].found = "stale" /\ procs[p].alone)
             => /\ procs'[p].ret = "true"
                /\ lockFile' = [domain |-> LockDomain, acquiredAt |-> procs[p].stamp, pid |-> p]
                /\ procs[p].stamp <= now
    ]_vars

\* A process has taken over the lock that the other process acquired and
\* never released: the record carries its pid and a time later than the old
\* record's timeout.
C16_Witness ==
  \E p, q \in Procs :
    /\ p # q
    /\ procs[p].op = "acquireLock" /\ procs[p].pc = "idle" /\ procs[p].ret = "true"
    /\ procs[q].pc = "idle" /\ procs[q].op = "acquireLock" /\ procs[q].ret = "true"
    /\ owned[q] # NotOwned /\ owned[p] - owned[q] > LOCK_TIMEOUT_MS
    /\ lockFile = [domain |-> LockDomain, acquiredAt |-> owned[p], pid |-> p]

\* ---------------------------------------------------------- stored records
\* The storage calls of the run so far ran one after the other, and none is in
\* flight.
Sequential == ~overlapped /\ ~Busy(ops)

\* C17: for every domain d and name n, once save(ctx, d, n) has returned and
\* until a delete removes the record, load(d, n) returns the storage state that
\* was saved (calls running one after the other); and every record file a save
\* wrote, newly created or overwritten, has mode 0600.
C17_SaveLoadRoundTrip ==
  /\ Sequential =>
       \A d \in DomainInputs, n \in NameInputs :
         getSessionPath(d, n) \in DOMAIN stored
           => load(disk, d, n) = [result |-> "ok", value |-> stored[getSessionPath(d, n)]]
  /\ (done.op = "save" /\ done.result = "ok" /\ Sequential)
       => /\ done.value = getSessionPath(done.domain, done.name)
          /\ FileAt(disk, done.value)
          /\ ReadFile(disk, done.value).mode = 384
          /\ load(disk, done.domain, done.name).result = "ok"
  /\ \A dir \in DOMAIN disk.dirs : \A f \in DOMAIN disk.dirs[dir] :
       disk.dirs[dir][f].mode = 384

\* A save has overwritten the record that an earlier save created, under a
\* domain that needs sanitizing, and load returns the second state.
C17_Witness ==
  /\ done.op = "save" /\ done.result = "ok" /\ Sequential
  /\ done.domain = TraversalDomain
  /\ ReadFile(disk, done.value).ino = 1
  /\ ReadFile(disk, done.value).mode = 384
  /\ load(disk, done.domain, done.name) = [result |-> "ok", value |-> storageState(2)]

\* C18: load(d, n) fails with the not-found error, carrying n and d as they
\* were passed, exactly when no file is at the record's path (the directory
\* tree is the same before and after); a file that is there and does not parse
\* makes load fail with the parser's error, not with not-found.
C18_LoadNotFound ==
  \A d \in DomainInputs, n \in NameInputs :
    /\ ~exists(disk, d, n)
         => load(disk, d, n) = [result |-> "StoredSessionNotFound", value |-> <<n, d>>]
    /\ load(disk, d, n).result = "StoredSessionNotFound" => ~exists(disk, d, n)
    /\ (exists(disk, d, n) /\ ~Parses(ReadFile(disk, getSessionPath(d, n)).data))
         => load(disk, d, n).result = "SyntaxError"

\* One record is missing in an existing domain directory (not found, named by
\* the domain as passed), another is there but only opened by a save (the
\* parse error comes through).
C18_Witness ==
  /\ DirAt(disk, sanitizeName(TraversalDomain))
  /\ load(disk, TraversalDomain, <<"p">>) =
       [result |-> "StoredSessionNotFound", value |-> <<<<"p">>, TraversalDomain>>]
  /\ \E n \in NameInputs : load(disk, TraversalDomain, n).result = "SyntaxError"

\* The lock file name, and the record files of the directory tree other than
\* the one at `path`, with their content.
LockFileName == <<".", "lock">>
OtherRecords(dk, path) ==
  UNION { {<<dir, f, dk.dirs[dir][f]>> :
             f \in {g \in DOMAIN dk.dirs[dir] :
                      g # LockFileName /\ [dir |-> dir, file |-> g] # path}} :
          dir \in DOMAIN dk.dirs }

\* The delete call of frame t takes a step / ends without an error at this step.
DeleteSteps(t) ==
  \/ ops[t].op = "delete" /\ ops'[t].pc # ops[t].pc
  \/ ops[t].pc = "idle" /\ ops'[t].op = "delete"
DeletePath(t) ==
  IF ops[t].op = "delete" THEN getSessionPath(ops[t].domain, ops[t].name)
  ELSE getSessionPath(ops'[t].domain, ops'[t].name)
DeleteEnds(t) == ops[t].op = "delete" /\ ops'[t].pc = "idle" /\ done'.result = "ok"

\* A delete is refused at this step.
DeleteRefused == ops' = ops /\ done' # done /\ done'.op = "delete"

\* What every delete does, whatever runs beside it: a refused delete found no
\* record and changes nothing, and no step of a delete touches another record.
DeleteFrame ==
  /\ DeleteRefused
       => /\ done'.result = "StoredSessionNotFound"
          /\ ~exists(disk, done'.domain, done'.name)
          /\ disk' = disk
  /\ \A t \in Callers :
       DeleteSteps(t)
         => OtherRecords(disk', DeletePath(t)) = OtherRecords(disk, DeletePath(t))

\* What the state is when a delete(d, n) has returned: no record at its path,
\* and its domain directory is there only with a file other than the lock file.
Deleted(dk, d, n) ==
  /\ ~exists(dk, d, n)
  /\ DirAt(dk, sanitizeName(d))
       => DOMAIN dk.dirs[sanitizeName(d)] \ {LockFileName} # {}

\* C19: delete(d, n) fails with not-found, changing nothing, when the record
\* is absent, and no step of a delete touches another record (both in every
\* interleaving); when a delete beside which no other storage call was in
\* flight has returned, exists(d, n) is false and the domain directory is
\* removed if and only if no non-lock file remains in it.
C19_DeleteAlone ==
  [][ /\ DeleteFrame
      /\ \A t \in Callers :
           (DeleteEnds(t) /\ ops[t].alone) => Deleted(disk', ops[t].domain, ops[t].name)
    ]_vars

\* A delete that ran alone has removed the last record of a domain and the
\* directory with it, and the record of the other domain is in place.
C19_Witness ==
  /\ done.op = "delete" /\ done.result = "ok" /\ done.alone
  /\ ~DirAt(disk, sanitizeName(done.domain))
  /\ \E d \in DomainInputs, n \in NameInputs : d # done.domain /\ exists(disk, d, n)

\* The records that were saved and not deleted since, as list() names them: the
\* directory of the sanitized domain and the sanitized name.
SavedRecords ==
  {[domain |-> path.dir, name |-> SubSeq(path.file, 1, Len(path.file) - 1)] :
     path \in DOMAIN stored}

\* C20: after any sequence of save and delete calls (run one after the other)
\* list() returns exactly the records that were saved and not deleted, one per
\* sanitized (domain, name) pair and never the lock file; list(d) returns exactly
\* those of the directory of d, also for a d that needs sanitizing; and list
\* returns nothing when the root or the domain directory does not exist.
C20_ListExactlySaved ==
  /\ Sequential =>
       /\ storageList(disk, NoFilter) = SavedRecords
       /\ \A d \in DomainInputs :
            storageList(disk, d) = {r \in SavedRecords : r.domain = sanitizeName(d)}
  /\ ~disk.root => \A f \in DomainInputs \cup {NoFilter} : storageList(disk, f) = {}
  /\ \A d \in DomainInputs : ~DirAt(disk, sanitizeName(d)) => storageList(disk, d) = {}

\* C38: a fresh lock on domain d held by process P stays in place whatever
\* record operations other processes run: save, load, exists, list and delete
\* on records of d (the delete of the last record of d included) never remove
\* or alter P's lock file while it is neither released nor stale.  In these
\* runs no lock is released and no lock grows stale: a lock file that is in
\* place stays in place, unaltered.
C38_LockSurvivesRecordCalls ==
  [][ \A d \in DomainInputs :
        FileAt(disk, getLockPath(d))
          => /\ FileAt(disk', getLockPath(d))
             /\ ReadFile(disk', getLockPath(d)) = ReadFile(disk, getLockPath(d))
    ]_vars

\* ------------------------------------------- storage_save / storage_load
\* The ways storageManager.load fails: no record, or a record that does not parse.
LoadFailures == {"StoredSessionNotFound", "SyntaxError"}

\* C35: storage_load reads the stored record before creating anything: when
\* the record is missing or unreadable the call returns an error and the
\* session registry is unchanged (no session named by the request exists
\* afterwards, no browser is launched); storage_save for an unknown session
\* returns SessionNotFound and writes no file.  Neither step of a storage_load
\* that fails to load changes the registry, the engine or the directory, and
\* the call fails exactly when load fails; the step of a refused storage_save
\* changes none of them and starts no save.
C35_LoadBeforeCreate ==
  [][ /\ \A t \in Tasks :
           /\ (tasks[t].pc = "idle" /\ tasks'[t].op = "storage_load")
                => sessions' = sessions /\ engine' = engine /\ disk' = disk
           /\ (tasks[t].op = "storage_load" /\ tasks'[t].op # "storage_load")
                => LET loaded == load(disk, tasks[t].domain, tasks[t].storage)
                   IN IF loaded.result \in LoadFailures
                      THEN /\ last'.op = "storage_load" /\ last'.result = loaded.result
                           /\ sessions' = sessions /\ engine' = engine /\ disk' = disk
                           /\ tasks'[t] = IdleTask
                           /\ MapHas(sessions', tasks[t].name) => MapHas(sessions, tasks[t].name)
                      ELSE last'.result \notin LoadFailures
      /\ (last' # last /\ last'.op = "storage_save")
           => /\ last'.result = "SessionNotFound"
              /\ ~MapHas(sessions, last'.name)
              /\ disk' = disk /\ ops' = ops /\ saves' = saves
              /\ sessions' = sessions /\ engine' = engine
    ]_vars

\* A storage_load of a record that does not parse has failed: no session of
\* that name exists and no browser was launched.
C35_Witness ==
  /\ last.op = "storage_load" /\ last.result = "SyntaxError"
  /\ ~MapHas(sessions, last.name)
  /\ engine = <<>>
  /\ disk.root

\* ---------------------------------------------------------- snapshot engine
\* C7: on an unchanged page, for every ref of the map a snapshot produced
\* (whatever the options), the locator built from the ref's role, name and nth
\* matches exactly the one node the ref was assigned to.
C7_RoundTrip ==
  phase = "resolved" =>
    \A r \in DOMAIN snapshot.refs : located[r] = <<snapshot.node[r]>>

\* The refs of the snapshot's map that were assigned the (role, name) pair of r.
SamePair(r) ==
  {q \in DOMAIN snapshot.refs :
     /\ snapshot.refs[q].role = snapshot.refs[r].role
     /\ snapshot.refs[q].name = snapshot.refs[r].name}

\* C8: in the map of one snapshot a ref carries an nth if and only if its
\* (role, name) pair was assigned to more than one ref; for such a pair the nth
\* values are 0, 1, ..., k-1 in document order.
C8_NthIffDuplicate ==
  phase \in {"snapshot", "resolved"} =>
    \A r \in DOMAIN snapshot.refs :
      /\ snapshot.refs[r].nth # NoNth <=> Cardinality(SamePair(r)) > 1
      /\ Cardinality(SamePair(r)) > 1 =>
           snapshot.refs[r].nth =
             Cardinality({q \in SamePair(r) : snapshot.node[q] < snapshot.node[r]})

\* A snapshot with a pair assigned twice (nth 0 and 1, in document order) and
\* a ref of another pair without nth.
C8_Witness ==
  /\ phase = "snapshot"
  /\ \E r, q, u \in DOMAIN snapshot.refs :
       /\ q \in SamePair(r) /\ snapshot.node[r] < snapshot.node[q]
       /\ snapshot.refs[r].nth = 0 /\ snapshot.refs[q].nth = 1
       /\ u \notin SamePair(r) /\ snapshot.refs[u].nth = NoNth

\* The accessibility tree the snapshot call processed, and the position in it
\* of the page node a ref was assigned to.
AriaTree == ariaSnapshot(page, snapOptions.selector)
LineOf(r) ==
  snapshot.node[r] - (IF snapOptions.selector = NoSelector THEN 1 ELSE snapOptions.selector) + 1

Taken == phase \in {"snapshot", "resolved"}

\* The positions of the input lines with an interactive role, in document order.
InteractiveLines ==
  Indices(Len(AriaTree),
          {i \in 1..Len(AriaTree) : AriaTree[i].parsed /\ AriaTree[i].role \in INTERACTIVE_ROLES},
          1)

\* C24: with interactive-only filtering the output tree holds one line for
\* every input line whose role is interactive, in document order, and no other
\* line; every emitted line carries a ref that is in the ref map, assigned to
\* that input line.
C24_InteractiveOnly ==
  (Taken /\ snapOptions.interactive) =>
    /\ Len(snapshot.tree.lines) = Len(InteractiveLines)
    /\ \A k \in 1..Len(InteractiveLines) :
         LET out == snapshot.tree.lines[k]
         IN /\ out.at = InteractiveLines[k]
            /\ out.role = AriaTree[out.at].role
            /\ out.ref \in DOMAIN snapshot.refs
            /\ LineOf(out.ref) = out.at

\* An interactive-only snapshot of a page that mixes a heading, a property line
\* and a button: only the button line is emitted.
C24_Witness ==
  /\ Taken /\ snapOptions.interactive
  /\ Len(snapshot.tree.lines) = 1
  /\ \E i, j \in 1..Len(AriaTree) :
       /\ AriaTree[i].role = "heading" /\ Truthy(AriaTree[i].name)
       /\ ~AriaTree[j].parsed
  /\ snapshot.tree.lines[1].role = "button"

\* C29: when maxDepth = d is given, no emitted line is indented deeper than d
\* and no ref is assigned to an input line deeper than d, whatever the
\* interactive and compact options.
C29_DepthLimit ==
  (Taken /\ snapOptions.maxDepth # NoDepth) =>
    /\ \A k \in 1..Len(snapshot.tree.lines) :
         getIndentLevel(snapshot.tree.lines[k]) <= snapOptions.maxDepth
    /\ \A r \in DOMAIN snapshot.refs :
         getIndentLevel(AriaTree[LineOf(r)]) <= snapOptions.maxDepth

\* Line j of the input is a descendant of line i: it follows i, and every line
\* from i + 1 to j is deeper than i.
Descendant(i, j) ==
  /\ i < j
  /\ \A k \in (i + 1)..j : AriaTree[k].indent > AriaTree[i].indent

\* The output line made from input line i, if the output has one.
Emitted(i) == \E k \in 1..Len(snapshot.tree.lines) : snapshot.tree.lines[k].at = i
OutputOf(i) ==
  snapshot.tree.lines[CHOOSE k \in 1..Len(snapshot.tree.lines) : snapshot.tree.lines[k].at = i]

\* C30: in compact mode a structural line with at least one descendant that
\* bears a ref or an explicit value is kept in the output; it is removed only
\* when it has no such descendant.
C30_CompactKeepsAncestors ==
  (Taken /\ snapOptions.compact /\ ~snapOptions.interactive) =>
    \A i, j \in 1..Len(AriaTree) :
      ( /\ AriaTree[i].parsed /\ AriaTree[i].role \in STRUCTURAL_ROLES
        /\ Descendant(i, j)
        /\ Emitted(j)
        /\ OutputOf(j).ref # 0 \/ HasValue(OutputOf(j)) )
      => Emitted(i)

\* Input line i is within the depth limit of the call.
PassesDepth(i) ==
  snapOptions.maxDepth = NoDepth \/ getIndentLevel(AriaTree[i]) <= snapOptions.maxDepth

\* C31: compact mode removes only lines whose role is structural: every parsed
\* input line with a non-structural role that passes the depth filter is
\* present in the compact output.
C31_CompactDropsOnlyStructural ==
  (Taken /\ snapOptions.compact /\ ~snapOptions.interactive) =>
    \A i \in 1..Len(AriaTree) :
      (AriaTree[i].parsed /\ AriaTree[i].role \notin STRUCTURAL_ROLES /\ PassesDepth(i))
        => Emitted(i)

\* shouldHaveRef, stated on the input line.
ShouldHaveRef(line) ==
  /\ line.parsed
  /\ \/ line.role \in INTERACTIVE_ROLES
     \/ line.role \in CONTENT_ROLES /\ Truthy(line.name)

\* C32: among the lines that survive the filters, a line receives a ref if and
\* only if its role is interactive, or its role is content-bearing and it has a
\* non-empty accessible name; structural lines, unnamed content lines and
\* unparseable lines never receive a ref.
C32_RefIffInteractiveOrNamedContent ==
  Taken =>
    /\ \A k \in 1..Len(snapshot.tree.lines) :
         LET out == snapshot.tree.lines[k]
         IN out.ref # 0 <=> ShouldHaveRef(AriaTree[out.at])
    /\ \A r \in DOMAIN snapshot.refs : ShouldHaveRef(AriaTree[LineOf(r)])

\* A snapshot whose output holds a named heading with a ref, an unnamed heading
\* without one and a property line without one.
C32_Witness ==
  /\ Taken /\ ~snapOptions.interactive
  /\ \E a, b, c \in 1..Len(snapshot.tree.lines) :
       /\ snapshot.tree.lines[a].role = "heading" /\ snapshot.tree.lines[a].ref # 0
       /\ snapshot.tree.lines[b].role = "heading" /\ snapshot.tree.lines[b].ref = 0
       /\ ~snapshot.tree.lines[c].parsed /\ snapshot.tree.lines[c].ref = 0

\* The lines of the returned tree that carry the annotation [ref=e<n>].
LinesWithRef(n) == {k \in 1..Len(snapshot.tree.lines) : snapshot.tree.lines[k].ref = n}
TokensInTree == {snapshot.tree.lines[k].ref : k \in 1..Len(snapshot.tree.lines)} \ {0}

\* C39: for every snapshot the set of ref tokens that appear as [ref=eN]
\* annotations in the returned tree equals the key set of the returned ref
\* map, each token on exactly one line, under every combination of filter
\* options.
C39_TreeTokensAreMapKeys ==
  Taken =>
    /\ TokensInTree = DOMAIN snapshot.refs
    /\ \A n \in DOMAIN snapshot.refs : Cardinality(LinesWithRef(n)) = 1

\* A compact snapshot with a depth limit that dropped lines of the page and
\* returned a line without a ref and one line with a ref.
C39_Witness ==
  /\ Taken /\ snapOptions.compact /\ ~snapOptions.interactive
  /\ snapOptions.maxDepth # NoDepth
  /\ Len(snapshot.tree.lines) < Len(AriaTree)
  /\ Cardinality(DOMAIN snapshot.refs) = 1
  /\ \E k \in 1..Len(snapshot.tree.lines) : snapshot.tree.lines[k].ref = 0

\* ------------------------------------------------------- refs of a session
\* The step ended an interaction call with an e<N> token.
ClickedToken == lastCall.op = "click" /\ IsToken(lastCall.selector)

\* The step ended a successful snapshot call.
Snapshotted == lastCall.op = "snapshot" /\ lastCall.result = "ok"

\* C5: a successful snapshot replaces the session's ref map wholesale: the
\* stored map is exactly the map the snapshot produced, and a ref of the map it
\* replaced that is not in the new map fails with RefNotFound.
C5_ReplacedWholesale ==
  Snapshotted =>
    /\ refMaps[lastCall.session] = lastCall.refs
    /\ \A n \in lastCall.replaced \ DOMAIN lastCall.refs :
         \A pf \in {"@", "ref=", ""} :
           getLocator(refMaps[lastCall.session], Selector(pf, "e", n)).error = "RefNotFound"

\* A snapshot that replaced a map by a non-empty map without one of its refs.
C5_Witness ==
  /\ Snapshotted
  /\ lastCall.refs # <<>>
  /\ lastCall.replaced \ DOMAIN refMaps[lastCall.session] # {}
  /\ lastCall.replaced \cap DOMAIN refMaps[lastCall.session] # {}

C28_RefsFromOne ==
  Snapshotted => DOMAIN lastCall.refs = 1..Cardinality(DOMAIN lastCall.refs)

\* What resolving a selector gives: the error, or the locator.
Resolved(s, selector) == getLocator(refMaps[s], selector)

ClickedOther == lastCall.op = "click" /\ ~IsToken(lastCall.selector)

\* C23: a selector that is not of the form '@e<N>', 'ref=e<N>' or bare 'e<N>' is
\* never looked up in the ref map: it goes to the page unchanged as a raw
\* selector and cannot give RefNotFound.
C23_OtherSelectorsRaw ==
  ClickedOther =>
    /\ lastCall.result # "RefNotFound"
    /\ lastCall.locator = CssLocator(lastCall.selector)

\* The locator of the entry n of a ref map: by role, name and nth.
LocatorOfEntry(refMap, n) ==
  RoleLocator(refMap[n].role,
              IF Truthy(refMap[n].name) THEN refMap[n].name ELSE NoName,
              refMap[n].nth)

\* C40: only a snapshot changes a session's ref map: navigation, tab changes,
\* interaction tools and a snapshot call that fails leave the map unchanged, so
\* a ref taken on one page still resolves (by role, name, nth) against
\* whichever page is active when it is used.
C40_OnlySnapshotChangesRefs ==
  /\ [](\A s \in Names :
          (ClickedToken /\ lastCall.session = s /\ lastCall.selector.n \in DOMAIN refMaps[s])
            => /\ lastCall.locator = LocatorOfEntry(refMaps[s], lastCall.selector.n)
               /\ lastCall.nodes = Matches(pages[s], lastCall.locator))
  /\ [][ \A s \in Names :
           refMaps'[s] # refMaps[s]
             => /\ lastCall'.op = "snapshot" /\ lastCall'.result = "ok"
                /\ lastCall'.session = s
     ]_vars

\* A ref taken on a page with two buttons was used after the page had changed
\* to one button: the map still holds it and its locator matched nothing.
C40_Witness ==
  /\ ClickedToken
  /\ lastCall.selector.n = 2
  /\ 2 \in DOMAIN refMaps[lastCall.session]
  /\ Len(pages[lastCall.session]) = 1
  /\ lastCall.locator.kind = "role" /\ lastCall.nodes = <<>>

\* ------------------------------------------------------ interaction errors
\* The categories of a failed interaction in their fixed order: the phrase of
\* the engine's message and the guidance it is rewritten into.
Categories ==
  << [phrase |-> "strict mode violation", guidance |-> "MultipleMatch"],
     [phrase |-> "intercepts pointer events", guidance |-> "Blocked"],
     [phrase |-> "not visible", guidance |-> "NotVisible"],
     [phrase |-> "Timeout", guidance |-> "TimedOut"] >>

FirstMatching(raw) ==
  LET hits == {k \in 1..Len(Categories) : Includes(raw, Categories[k].phrase)}
  IN IF hits = {} THEN raw
     ELSE Categories[CHOOSE k \in hits : \A h \in hits : k <= h].guidance

\* The step ended a call of a tool that takes a selector with an engine error.
EngineErrorIn(tools) == lastCall.op \in tools /\ lastCall.raw \in EngineMessages

\* C33: an engine error raised inside an interaction or wait tool that takes a
\* selector (click, ..., fill_form, ...) is reported with the guidance of the
\* first matching category in the order ambiguous-match, obscured-by-overlay,
\* not-visible, timed-out, and with the raw message only when none matches.
C33_ErrorsTranslated ==
  EngineErrorIn({"click", "fill_form"}) => lastCall.result = FirstMatching(lastCall.raw)

\* The nodes of the form the fields 1..n of a call name, and the page the
\* fills of those fields in their order make of the page `before`.
NodeOf(field) == field.selector.n
RECURSIVE FillsApplied(_, _, _)
FillsApplied(before, fields, n) ==
  IF n = 0 THEN before
  ELSE [FillsApplied(before, fields, n - 1)
          EXCEPT ![NodeOf(fields[n])].suffix = Rendered(fields[n].value)]

FillEnded == lastCall.op = "fill_form"

\* C34: fill_form fills its fields strictly in the given order and stops at
\* the first field that fails: the call returns an error, the fields before the
\* failing one keep their new values and the fields after it are not touched;
\* without a failure every field is filled.
C34_FillStopsAtFirstFailure ==
  FillEnded =>
    LET k == lastCall.failed
    IN /\ lastCall.result = "ok" <=> k = 0
       /\ pages[lastCall.session] =
            FillsApplied(lastCall.before, lastCall.fields,
                         IF k = 0 THEN Len(lastCall.fields) ELSE k - 1)

\* A call with two fields whose second field failed with an engine error: the
\* first field has its new value, the second is as it was.
C34_Witness ==
  /\ FillEnded
  /\ Len(lastCall.fields) = 2 /\ lastCall.failed = 2
  /\ lastCall.raw \in EngineMessages
  /\ NodeOf(lastCall.fields[1]) = 2 /\ NodeOf(lastCall.fields[2]) = 1
  /\ pages[lastCall.session][2].suffix = Rendered(lastCall.fields[1].value)
  /\ pages[lastCall.session][1].suffix = NoText

\* ------------------------------------------------------------ process exit
\* C27: on SIGINT or SIGTERM the server destroys all sessions before the process
\* exits: at exit no session is left in the registry and no browser instance
\* launched by a create call, completed or still in flight when the signal
\* arrived, is left open.
C27_CleanExit ==
  Exited =>
    /\ sessions = <<>>
    /\ \A h \in 1..Len(engine) : engine[h].browser # "open"

\* ---------------------------------------------------------- tabs of a session
\* The active page is one of the open pages of the context.
ActiveIsOpen == \E i \in 1..Len(contextPages) : contextPages[i] = activePage

\* The step is the start of a browser_tabs call with the action 'close'.
CloseCalled ==
  \/ \E t \in TabCallers : tabCalls[t].pc = "idle" /\ tabCalls'[t].pc = "close"
  \/ /\ tabCalls' = tabCalls
     /\ lastTool'.tool = "browser_tabs" /\ lastTool'.action = "close"

\* C25: the active page of a session is always one of the open pages of its
\* context and the context always has at least one page, after every sequence
\* of tab actions; closing the last remaining tab is refused with an error.
C25_ActivePageOpen ==
  /\ [](Len(contextPages) >= 1 /\ ActiveIsOpen)
  /\ [][(CloseCalled /\ Len(contextPages) = 1)
          => /\ lastTool'.result = "error" /\ lastTool'.message = "LastTab"
             /\ contextPages' = contextPages /\ activePage' = activePage]_vars

\* C26: every tool call ends with a result, success or an error result with a
\* message, and never with an exception that leaves the handler.
C26_ToolCallsReturn ==
  lastTool.tool # "none" =>
    /\ lastTool.result \in {"success", "error"}
    /\ lastTool.result = "error" => lastTool.message # ""

\* ------------------------------------------------------------------- paths
\* A string free of path separators and of the sequence '..'.
OneSegment(seg) ==
  /\ \A i \in 1..Len(seg) : seg[i] \notin {"/", "\\"}
  /\ \A i \in 1..(Len(seg) - 1) : ~(seg[i] = "." /\ seg[i + 1] = ".")

\* A path of the form <root>/<the sanitized domain>/<file>.
UnderDomain(path, domain, file) ==
  /\ path.up = 0
  /\ path.rest = <<sanitizeName(domain), file>>
  /\ OneSegment(sanitizeName(domain))

\* C21: for every domain string and name string, the record path and the lock
\* path stay inside the session root and have the form
\* <root>/<one sanitized domain segment>/<one file>, the segment holding no path
\* separator and no '..'.
C21_PathsUnderDomain ==
  paths # NoPaths =>
    /\ UnderDomain(paths.record, request.domain, sanitizeName(request.name) \o <<".json">>)
    /\ UnderDomain(paths.lock, request.domain, LockFileName)

====
